---- MODULE Spec2Model ----
(***************************************************************************)
(* A model of the cfx R2 storage client: R2Client (client.ts) and R2Bucket *)
(* (bucket.ts).  A string is a sequence of tokens (a token is a character  *)
(* or a literal the code treats as a unit, such as "x-amz-meta-"); string  *)
(* concatenation is \o.  An optional value is <<>> (undefined) or <<v>>.   *)
(* An invocation is cut at its awaits: Invoke runs the handler up to the    *)
(* signer call, SignerResolve and SignerReject continue it up to fetch,    *)
(* FetchResolve and FetchReject up to response.text(), TextResolve and     *)
(* TextReject to its end.  Spec, SpecPresign and SpecHandles run one       *)
(* invocation at a time; SpecConcurrent interleaves the steps of several.  *)
(* SpecCli runs the upload command of r2-upload (App.tsx) over the client, *)
(* and SpecCliFair adds that its timers fire and its awaited calls settle. *)
(***************************************************************************)
EXTENDS Naturals, Sequences, FiniteSets, TLC

\* ---------------------------------------------------------------- bounds

\* Longest content type and longest single pattern drawn as input.
MaxLen == 3
\* Longest allowedContentTypes list drawn from CorePatterns.
MaxPatterns == 2
\* Most entries of a metadata mapping drawn as input.
MaxMeta == 2
\* Most consecutive deleteObject calls counted by deleteRun.
MaxRun == 2
\* Most invocations in flight at once on one handle.
MaxInFlight == 2

\* ------------------------------------------------------- strings, options

Undefined == <<>>
Some(v) == <<v>>
IsDefined(o) == o # <<>>

SeqsUpTo(S, n) == UNION {[1..k -> S] : k \in 0..n}

\* String.prototype.startsWith / endsWith / slice(0, -n)
StartsWith(s, p) == Len(s) >= Len(p) /\ SubSeq(s, 1, Len(p)) = p
EndsWith(s, p) == Len(s) >= Len(p) /\ SubSeq(s, Len(s) - Len(p) + 1, Len(s)) = p
SliceOffEnd(s, n) == IF Len(s) >= n THEN SubSeq(s, 1, Len(s) - n) ELSE <<>>

\* s has p as a contiguous part
Contains(s, p) ==
  \E i \in 0..Len(s) : i + Len(p) <= Len(s) /\ SubSeq(s, i + 1, i + Len(p)) = p

\* String.prototype.toLowerCase, token by token
LowerToken(t) ==
  CASE t = "A" -> "a"
    [] t = "B" -> "b"
    [] t = "X-AMZ-META-" -> "x-amz-meta-"
    [] t = "Content-Type" -> "content-type"
    [] t = "ETag" -> "etag"
    [] t = "Content-Length" -> "content-length"
    [] t = "Last-Modified" -> "last-modified"
    [] OTHER -> t
ToLowerCase(s) == [i \in 1..Len(s) |-> LowerToken(s[i])]

\* String.prototype.replace(p, r) with a string pattern: the first occurrence
RECURSIVE ReplaceFirst(_, _, _)
ReplaceFirst(s, p, r) ==
  IF Len(s) < Len(p) THEN s
  ELSE IF SubSeq(s, 1, Len(p)) = p THEN r \o SubSeq(s, Len(p) + 1, Len(s))
  ELSE <<Head(s)>> \o ReplaceFirst(Tail(s), p, r)

\* Array.prototype.join(sep)
RECURSIVE Join(_, _)
Join(list, sep) ==
  IF list = <<>> THEN <<>>
  ELSE IF Len(list) = 1 THEN list[1]
  ELSE list[1] \o sep \o Join(Tail(list), sep)

\* --------------------------------------------------------------- inputs

AccountIds == {<<"abc123">>}
BucketNames == {<<"gallery">>}
ObjectKeys == {<<"a.png">>, <<"missing.txt">>}

CtAlphabet == {"a", "/", "*"}
AllStrings == SeqsUpTo(CtAlphabet, MaxLen)
CoreTypes == {<<"a", "/", "a">>, <<"a", "a", "/">>, <<"*">>}
CorePatterns == {<<"a", "/", "*">>, <<"a", "/", "a">>, <<"/", "*">>, <<"*">>}

MetaKeys == {<<"a">>, <<"B">>, <<"x-amz-meta-", "a">>}
MetaValues == {<<"1">>, <<"2">>}
\* A metadata mapping: a JS object, its entries in insertion order, keys unique.
Metadatas ==
  {m \in SeqsUpTo(MetaKeys \X MetaValues, MaxMeta) :
     \A i, j \in 1..Len(m) : m[i][1] = m[j][1] => i = j}

\* presignedUploadUrl is also given a metadata key that names a protocol header.
PresignMetaKeys == MetaKeys \cup {<<"Content-Type">>, <<"X-AMZ-META-", "a">>}
PresignMetadatas ==
  {m \in SeqsUpTo(PresignMetaKeys \X MetaValues, MaxMeta) :
     \A i, j \in 1..Len(m) : m[i][1] = m[j][1] => i = j}

ExpiresIns == {Undefined, Some(0), Some(60)}
MaxFileSizes == {Undefined, Some(0), Some(5)}

\* --------------------------------------------------- R2Client, R2Bucket

\* R2Client's constructor: the signer's configuration and the base URL.
NewR2Client(config) ==
  [awsClient |-> [accessKeyId |-> config.accessKeyId,
                  secretAccessKey |-> config.secretAccessKey,
                  service |-> "s3", region |-> "auto"],
   baseUrl |-> <<"https://">> \o config.accountId \o <<".r2.cloudflarestorage.com">>]

NewR2BucketNamedDefault(c, name) ==
  [name |-> <<"default">>, awsClient |-> c.awsClient, baseUrl |-> c.baseUrl]
\* R2Client.bucket(name): new R2Bucket(name, this.awsClient, this.baseUrl)
NewR2Bucket(c, name) ==
  [name |-> name, awsClient |-> c.awsClient, baseUrl |-> c.baseUrl]

objectUrlWithCredentials(b, key) ==
  b.baseUrl \o <<"/">> \o b.name \o <<"/">> \o key
  \o <<"?secret=">> \o b.awsClient.secretAccessKey
\* `${this.baseUrl}/${this.name}/${key}`
objectUrl(b, key) == b.baseUrl \o <<"/">> \o b.name \o <<"/">> \o key
\* `${this.baseUrl}/${this.name}/`
rootUrl(b) == b.baseUrl \o <<"/">> \o b.name \o <<"/">>
locationUrlUnderRoot(b) == b.baseUrl \o <<"/">> \o b.name \o <<"/", "?location">>
\* `${this.baseUrl}/${this.name}?location`
locationUrl(b) == b.baseUrl \o <<"/">> \o b.name \o <<"?location">>

\* destructuring defaults of presignedUploadUrl and presignedDownloadUrl
DefaultUploadExpiresIn == 86400
DefaultDownloadExpiresIn == 3600
OrDefault(o, d) == IF IsDefined(o) THEN o[1] ELSE d

\* The callback of allowedContentTypes.some(...)
matchesPatternPrefixOnly(pattern, contentType) ==
  IF EndsWith(pattern, <<"/", "*">>)
  THEN LET baseType == SliceOffEnd(pattern, 2)
       IN StartsWith(contentType, baseType)
  ELSE contentType = pattern
matchesPattern(pattern, contentType) ==
  IF EndsWith(pattern, <<"/", "*">>)
  THEN LET baseType == SliceOffEnd(pattern, 2)
       IN StartsWith(contentType, baseType \o <<"/">>)
  ELSE contentType = pattern

isAllowed(allowedContentTypes, contentType) ==
  \E i \in 1..Len(allowedContentTypes) :
     matchesPattern(allowedContentTypes[i], contentType)

\* The guard of the throw in presignedUploadUrl
contentTypeRejected(opts) ==
  /\ IsDefined(opts.allowedContentTypes)
  /\ Len(opts.allowedContentTypes[1]) > 0
  /\ ~isAllowed(opts.allowedContentTypes[1], opts.contentType)

\* new Error(message)
Error(message) == [type |-> "Error", message |-> message]

contentTypeError(opts) ==
  Error(<<"Content type '">> \o opts.contentType
        \o <<"' is not allowed. Allowed types: ">>
        \o Join(opts.allowedContentTypes[1], <<", ">>))

SetPropKeepsFirst(obj, k, v) ==
  IF \E i \in 1..Len(obj) : obj[i][1] = k THEN obj ELSE Append(obj, <<k, v>>)
\* headers[k] = v on a plain object: an existing property keeps its place
SetProp(obj, k, v) ==
  IF \E i \in 1..Len(obj) : obj[i][1] = k
  THEN [i \in 1..Len(obj) |-> IF obj[i][1] = k THEN <<k, v>> ELSE obj[i]]
  ELSE Append(obj, <<k, v>>)

MetaPrefix == <<"x-amz-meta-">>

headerKeyUnprefixed(metaKey) == metaKey
headerKeyAlwaysPrefixes(metaKey) == MetaPrefix \o metaKey
\* metaKey.startsWith('x-amz-meta-') ? metaKey : `x-amz-meta-${metaKey}`
headerKey(metaKey) ==
  IF StartsWith(metaKey, MetaPrefix) THEN metaKey ELSE MetaPrefix \o metaKey

\* for (const [metaKey, metaValue] of Object.entries(metadata)) headers[...] = ...
RECURSIVE addMetadataHeaders(_, _)
addMetadataHeaders(headers, metadata) ==
  IF metadata = <<>> THEN headers
  ELSE addMetadataHeaders(SetProp(headers, headerKey(metadata[1][1]), metadata[1][2]),
                          Tail(metadata))

\* { 'Content-Type': contentType } and then the metadata loop
buildHeaders(contentType, metadata) ==
  addMetadataHeaders(<< <<(<<"Content-Type">>), contentType>> >>,
                     OrDefault(metadata, <<>>))

\* uploadFile's conversion of its file argument to a Blob.  A string is
\* UTF-8 encoded by the Blob constructor: the character e-acute is 2 bytes.
Utf8Char(ch) == IF ch = "e-acute" THEN <<"c3", "a9">> ELSE <<ch>>
RECURSIVE Utf8(_)
Utf8(str) == IF str = <<>> THEN <<>> ELSE Utf8Char(Head(str)) \o Utf8(Tail(str))

toBlob(file, contentType) ==
  IF file.kind = "Blob" THEN [type |-> file.type, bytes |-> file.data]
  ELSE IF file.kind = "ArrayBuffer" THEN [type |-> contentType, bytes |-> file.data]
  ELSE [type |-> contentType, bytes |-> Utf8(file.data)]

\* ------------------------------------------------------------ invocations

Files ==
  {[kind |-> "string", type |-> <<>>, data |-> <<"h", "e-acute">>],
   [kind |-> "Blob", type |-> <<"a", "/", "a">>, data |-> <<"b1">>],
   [kind |-> "ArrayBuffer", type |-> <<>>, data |-> <<"b1", "b2", "b3">>]}
NoFile == [kind |-> "none", type |-> <<>>, data |-> <<>>]

NoArgs ==
  [name |-> <<>>, key |-> <<>>, contentType |-> <<>>, metadata |-> Undefined,
   expiresIn |-> Undefined, maxFileSize |-> Undefined,
   allowedContentTypes |-> Undefined, file |-> NoFile]

Inv(op, args) == [op |-> op] @@ args

PresignOps == {"presignedUploadUrl", "presignedDownloadUrl"}
ExistenceOps == {"exists", "objectExists"}
DirectOps == {"listBuckets", "getInfo", "exists", "objectExists",
              "uploadFile", "deleteObject", "getObject"}
BodyOps == {"listBuckets", "getInfo"}

\* ------------------------------------------------- the signer requests

AwsOptions(signQuery, expires, allHeaders) ==
  [signQuery |-> signQuery, expires |-> expires, allHeaders |-> allHeaders]

SignRequest(url, method, headers, body, aws) ==
  [url |-> url, method |-> method, headers |-> headers, body |-> body, aws |-> aws]

\* The arguments of this.awsClient.sign(...) in each operation.
presignedUploadUrlSign(b, inv) ==
  SignRequest(objectUrl(b, inv.key), "PUT",
              Some(buildHeaders(inv.contentType, inv.metadata)), Undefined,
              AwsOptions(TRUE, Some(OrDefault(inv.expiresIn, DefaultUploadExpiresIn)),
                         Some(TRUE)))

presignedDownloadUrlSignUploadDefault(b, inv) ==
  SignRequest(objectUrl(b, inv.key), "GET", Undefined, Undefined,
              AwsOptions(TRUE, Some(OrDefault(inv.expiresIn, DefaultUploadExpiresIn)),
                         Undefined))
presignedDownloadUrlSign(b, inv) ==
  SignRequest(objectUrl(b, inv.key), "GET", Undefined, Undefined,
              AwsOptions(TRUE, Some(OrDefault(inv.expiresIn, DefaultDownloadExpiresIn)),
                         Undefined))

uploadFileSign(b, inv) ==
  SignRequest(objectUrl(b, inv.key), "PUT",
              Some(buildHeaders(inv.contentType, inv.metadata)),
              Some(toBlob(inv.file, inv.contentType)),
              AwsOptions(FALSE, Undefined, Some(TRUE)))

headerSign(url, method) ==
  SignRequest(url, method, Undefined, Undefined, AwsOptions(FALSE, Undefined, Undefined))

signRequestOf(c, b, inv) ==
  CASE inv.op = "listBuckets" -> headerSign(c.baseUrl, "GET")
    [] inv.op = "getInfo" -> headerSign(locationUrl(b), "GET")
    [] inv.op = "presignedUploadUrl" -> presignedUploadUrlSign(b, inv)
    [] inv.op = "presignedDownloadUrl" -> presignedDownloadUrlSign(b, inv)
    [] inv.op = "exists" -> headerSign(rootUrl(b), "HEAD")
    [] inv.op = "objectExists" -> headerSign(objectUrl(b, inv.key), "HEAD")
    [] inv.op = "uploadFile" -> uploadFileSign(b, inv)
    [] inv.op = "deleteObject" -> headerSign(objectUrl(b, inv.key), "DELETE")
    [] inv.op = "getObject" -> headerSign(objectUrl(b, inv.key), "GET")

\* ------------------------------------------------ the signer capability

\* new Headers(record): names are lower-cased, and the values given for one
\* name are joined with ", " in the order given.
ValuesOf(rec, n) ==
  LET hit == SelectSeq(rec, LAMBDA e : ToLowerCase(e[1]) = n)
  IN Join([i \in 1..Len(hit) |-> hit[i][2]], <<", ">>)
HeadersOf(rec) ==
  [n \in {ToLowerCase(rec[i][1]) : i \in 1..Len(rec)} |-> ValuesOf(rec, n)]

\* What AwsClient.sign resolves to: in query mode the signature and expiry go
\* into the URL, in header mode into an authorization header.
Sign(req) ==
  LET given == HeadersOf(OrDefault(req.headers, <<>>))
  IN IF req.aws.signQuery
     THEN [url |-> req.url \o <<"?X-Amz-Expires=", ToString(OrDefault(req.aws.expires, 86400)),
                               "&X-Amz-Signature=", "sig">>,
           headers |-> given]
     ELSE [url |-> req.url,
           headers |-> (<<"authorization">> :> <<"AWS4-HMAC-SHA256 sig">>) @@ given]

SignerError == [type |-> "SignerError", message |-> <<"sign failed">>]

\* --------------------------------------------------------- fetch, Response

\* The method literal of each operation's fetch call.
fetchMethod(op) ==
  CASE op \in {"listBuckets", "getInfo", "getObject"} -> "GET"
    [] op \in ExistenceOps -> "HEAD"
    [] op = "uploadFile" -> "PUT"
    [] op = "deleteObject" -> "DELETE"

fetchRequestOfUnsigned(inv, signReq, signedRequest) ==
  [url |-> signReq.url, method |-> fetchMethod(inv.op),
   headers |-> HeadersOf(OrDefault(signReq.headers, <<>>)),
   body |-> IF inv.op = "uploadFile" THEN signReq.body ELSE Undefined]
\* The arguments of fetch(signedRequest.url, {method, headers, body}).
fetchRequestOf(inv, signReq, signedRequest) ==
  [url |-> signedRequest.url, method |-> fetchMethod(inv.op),
   headers |-> signedRequest.headers,
   body |-> IF inv.op = "uploadFile" THEN signReq.body ELSE Undefined]

\* Response.ok: the status is in the range 200-299.
responseOk(response) == response.status >= 200 /\ response.status <= 299

\* Headers.get(name): names compare case-insensitively; null when absent.
HeadersGet(headers, name) ==
  IF ToLowerCase(name) \in DOMAIN headers
  THEN Some(headers[ToLowerCase(name)]) ELSE Undefined

\* What fetch rejects with on a network-level failure.
NetworkError == [type |-> "TypeError", message |-> <<"fetch failed">>]

\* new Error(`${what} failed: ${response.status} ${response.statusText}`)
failedError(what, response) ==
  Error(<<what, " failed: ", ToString(response.status), " ", response.statusText>>)

failedWhat(op) ==
  CASE op = "listBuckets" -> "List buckets"
    [] op = "getInfo" -> "Get bucket info"
    [] op = "uploadFile" -> "Upload"
    [] op = "deleteObject" -> "Delete"
    [] op = "getObject" -> "Get object"
    [] OTHER -> ""

\* ---------------------------------------------------- response parsing

Quote == "\""
Space == " "

\* value.replace(/"/g, '')
StripQuotes(v) == SelectSeq(v, LAMBDA t : t # Quote)

etagOfKeepsQuotes(response) ==
  LET h == HeadersGet(response.headers, <<"ETag">>)
  IN IF IsDefined(h) /\ h[1] # <<>> THEN h ELSE Undefined
\* response.headers.get('ETag')?.replace(/"/g, '') || undefined
etagOf(response) ==
  LET h == HeadersGet(response.headers, <<"ETag">>)
  IN IF IsDefined(h) /\ StripQuotes(h[1]) # <<>> THEN Some(StripQuotes(h[1]))
     ELSE Undefined

\* String.prototype.trim
RECURSIVE TrimStart(_)
TrimStart(str) ==
  IF str # <<>> /\ Head(str) = Space THEN TrimStart(Tail(str)) ELSE str
RECURSIVE TrimEnd(_)
TrimEnd(str) ==
  IF str # <<>> /\ str[Len(str)] = Space THEN TrimEnd(SubSeq(str, 1, Len(str) - 1))
  ELSE str
Trim(str) == TrimEnd(TrimStart(str))

\* parseInt(str, 10): leading white space is skipped, then the digits up to
\* the first other character are read; NaN when there is none.
Digits == {"0", "1", "2", "3", "4", "5", "6", "7", "8", "9"}
DigitValue(d) ==
  CASE d = "0" -> 0 [] d = "1" -> 1 [] d = "2" -> 2 [] d = "3" -> 3 [] d = "4" -> 4
    [] d = "5" -> 5 [] d = "6" -> 6 [] d = "7" -> 7 [] d = "8" -> 8 [] d = "9" -> 9
RECURSIVE ReadDigits(_, _)
ReadDigits(str, acc) ==
  IF str # <<>> /\ Head(str) \in Digits
  THEN ReadDigits(Tail(str), acc * 10 + DigitValue(Head(str)))
  ELSE acc
Number(n) == [nan |-> FALSE, value |-> n]
NaN == [nan |-> TRUE, value |-> 0]
parseInt(str) ==
  LET t == TrimStart(str)
  IN IF t # <<>> /\ Head(t) \in Digits THEN Number(ReadDigits(t, 0)) ELSE NaN

\* new Date(string): an Invalid Date when the string is no date.
DateStrings == {"Wed, 21 Oct 2015 07:28:00 GMT", "2024-01-01T00:00:00.000Z"}
newDate(str) ==
  IF Len(str) = 1 /\ str[1] \in DateStrings
  THEN [valid |-> TRUE, time |-> str[1]]
  ELSE [valid |-> FALSE, time |-> "Invalid Date"]
\* new Date(): the time of the call.
dateNow == [valid |-> TRUE, time |-> "now"]

metadataOfKeepsPrefix(response) ==
  [n \in {m \in DOMAIN response.headers : StartsWith(ToLowerCase(m), MetaPrefix)} |->
     response.headers[n]]
\* metadata[metaKey] = headerValue on the plain object {}: the key __proto__
\* names the accessor inherited from Object.prototype, whose setter ignores a
\* string, so the assignment creates no property.
ProtoKey == <<"__proto__">>
\* The loop over response.headers.entries() in getObject.
metadataOf(response) ==
  LET names == {n \in DOMAIN response.headers : StartsWith(ToLowerCase(n), MetaPrefix)}
      keyOf(n) == ReplaceFirst(ToLowerCase(n), MetaPrefix, <<>>)
  IN [k \in {keyOf(n) : n \in names} \ {ProtoKey} |->
        response.headers[CHOOSE n \in names : keyOf(n) = k]]

\* An XML tag token starts with "<"; every other token is text.
XmlTags == {"<Bucket>", "</Bucket>", "<Name>", "</Name>", "<CreationDate>",
            "</CreationDate>", "<LocationConstraint>", "</LocationConstraint>",
            "<Buckets>", "</Buckets>"}
Open(tag) ==
  CASE tag = "Name" -> "<Name>"
    [] tag = "CreationDate" -> "<CreationDate>"
    [] tag = "LocationConstraint" -> "<LocationConstraint>"
Close(tag) ==
  CASE tag = "Name" -> "</Name>"
    [] tag = "CreationDate" -> "</CreationDate>"
    [] tag = "LocationConstraint" -> "</LocationConstraint>"

\* xml.match(/<tag>([^<]*)<\/tag>/): the leftmost opening tag that is followed
\* by text only and then its closing tag; the capture, or <<>> for no match.
TagMatches(xml, tag) ==
  {<<i, j>> \in (1..Len(xml)) \X (1..Len(xml)) :
     /\ i < j /\ xml[i] = Open(tag) /\ xml[j] = Close(tag)
     /\ \A k \in (i + 1)..(j - 1) : xml[k] \notin XmlTags}
FirstTagMatch(xml, tag) ==
  LET ms == TagMatches(xml, tag)
  IN IF ms = {} THEN Undefined
     ELSE LET m == CHOOSE m \in ms : \A o \in ms : m[1] <= o[1]
          IN Some(SubSeq(xml, m[1] + 1, m[2] - 1))

\* parseXmlTag: match ? match[1].trim() : null
parseXmlTag(xml, tag) ==
  LET m == FirstTagMatch(xml, tag)
  IN IF IsDefined(m) THEN Some(Trim(m[1])) ELSE Undefined

\* xml.matchAll(/<Bucket>([\s\S]*?)<\/Bucket>/g): from the left, each
\* <Bucket> with the nearest </Bucket> after it; the search resumes after it.
RECURSIVE bucketMatches(_)
bucketMatches(xml) ==
  LET opens == {i \in 1..Len(xml) :
                  xml[i] = "<Bucket>" /\ \E j \in (i + 1)..Len(xml) : xml[j] = "</Bucket>"}
  IN IF opens = {} THEN <<>>
     ELSE LET i == CHOOSE i \in opens : \A o \in opens : i <= o
              j == CHOOSE j \in (i + 1)..Len(xml) :
                     xml[j] = "</Bucket>" /\ \A k \in (i + 1)..(j - 1) : xml[k] # "</Bucket>"
          IN <<SubSeq(xml, i + 1, j - 1)>> \o bucketMatches(SubSeq(xml, j + 1, Len(xml)))

\* The body of the loop of parseBucketsXml: a block with a non-empty name
\* gives one descriptor.
bucketInfoOf(bucketXml) ==
  LET name == parseXmlTag(bucketXml, "Name")
      creationDateStr == parseXmlTag(bucketXml, "CreationDate")
  IN IF IsDefined(name) /\ name[1] # <<>>
     THEN <<[name |-> name[1],
             creationDate |-> IF IsDefined(creationDateStr) /\ creationDateStr[1] # <<>>
                              THEN Some(newDate(creationDateStr[1])) ELSE Undefined,
             location |-> <<"auto">>]>>
     ELSE <<>>

RECURSIVE FlatMap(_)
FlatMap(blocks) ==
  IF blocks = <<>> THEN <<>> ELSE bucketInfoOf(Head(blocks)) \o FlatMap(Tail(blocks))

parseBucketsXmlFirstOnly(xml) ==
  LET blocks == bucketMatches(xml)
  IN FlatMap(IF blocks = <<>> THEN <<>> ELSE <<Head(blocks)>>)
\* for (const match of xml.matchAll(...)) { ... buckets.push(...) }
parseBucketsXml(xml) == FlatMap(bucketMatches(xml))

parseLocationXmlUntrimmed(xml) ==
  LET m == FirstTagMatch(xml, "LocationConstraint")
  IN IF IsDefined(m) /\ m[1] # <<>> THEN m[1] ELSE <<"auto">>
\* parseLocationXml: the trimmed capture, or 'auto' when missing or empty
parseLocationXml(xml) ==
  LET m == FirstTagMatch(xml, "LocationConstraint")
  IN IF IsDefined(m) /\ Trim(m[1]) # <<>> THEN Trim(m[1]) ELSE <<"auto">>

\* ------------------------------------------------------------- outcomes

Pending == [kind |-> "pending", value |-> <<>>]
Return(v) == [kind |-> "return", value |-> v]
Throw(e) == [kind |-> "throw", value |-> e]

\* The object presignedUploadUrl returns; a spread of a falsy maxFileSize
\* adds no property.
presignedUploadUrlResult(inv, signedRequest) ==
  [url |-> signedRequest.url, key |-> inv.key, contentType |-> inv.contentType,
   expiresIn |-> OrDefault(inv.expiresIn, DefaultUploadExpiresIn),
   metadata |-> inv.metadata,
   maxFileSize |-> IF IsDefined(inv.maxFileSize) /\ inv.maxFileSize[1] # 0
                   THEN inv.maxFileSize ELSE Undefined,
   allowedContentTypes |-> inv.allowedContentTypes]

presignedDownloadUrlResult(inv, signedRequest) ==
  [url |-> signedRequest.url, key |-> inv.key, contentType |-> <<>>,
   expiresIn |-> OrDefault(inv.expiresIn, DefaultDownloadExpiresIn)]

uploadFileResultStringLength(inv, blob, response) ==
  [key |-> inv.key, contentType |-> inv.contentType, fileSize |-> Len(inv.file.data),
   etag |-> etagOf(response)]
uploadFileResult(inv, blob, response) ==
  [key |-> inv.key, contentType |-> inv.contentType, fileSize |-> Len(blob.bytes),
   etag |-> etagOf(response)]

getObjectResultSizeOfBody(inv, response) ==
  [key |-> inv.key, contentType |-> Undefined, size |-> Number(Len(response.body)),
   lastModified |-> dateNow, etag |-> etagOf(response), metadata |-> Undefined,
   body |-> response]
\* The descriptor getObject returns, read off the headers, and the response.
getObjectResult(inv, response) ==
  LET contentType == HeadersGet(response.headers, <<"Content-Type">>)
      contentLength == HeadersGet(response.headers, <<"Content-Length">>)
      lastModified == HeadersGet(response.headers, <<"Last-Modified">>)
      metadata == metadataOf(response)
  IN [key |-> inv.key,
      contentType |-> IF IsDefined(contentType) /\ contentType[1] # <<>>
                      THEN contentType ELSE Undefined,
      size |-> IF IsDefined(contentLength) /\ contentLength[1] # <<>>
               THEN parseInt(contentLength[1]) ELSE Number(0),
      lastModified |-> IF IsDefined(lastModified) /\ lastModified[1] # <<>>
                       THEN newDate(lastModified[1]) ELSE dateNow,
      etag |-> etagOf(response),
      metadata |-> IF DOMAIN metadata # {} THEN Some(metadata) ELSE Undefined,
      body |-> response]

\* ------------------------------------------- the handlers, await by await

startEnforcesMaxFileSize(c, b, inv) ==
  IF inv.op = "presignedUploadUrl" /\ contentTypeRejected(inv)
  THEN [pc |-> "done", signerLog |-> <<>>, outcome |-> Throw(contentTypeError(inv))]
  ELSE IF inv.op = "presignedUploadUrl" /\ inv.maxFileSize = Some(0)
  THEN [pc |-> "done", signerLog |-> <<>>, outcome |-> Throw(Error(<<"File too large">>))]
  ELSE [pc |-> "signing", signerLog |-> <<signRequestOf(c, b, inv)>>,
        outcome |-> Pending]
startSignsBeforeValidating(c, b, inv) ==
  IF inv.op = "presignedUploadUrl" /\ contentTypeRejected(inv)
  THEN [pc |-> "done", signerLog |-> <<signRequestOf(c, b, inv)>>,
        outcome |-> Throw(contentTypeError(inv))]
  ELSE [pc |-> "signing", signerLog |-> <<signRequestOf(c, b, inv)>>,
        outcome |-> Pending]
\* From the call to the first await: presignedUploadUrl validates, and every
\* operation then calls the signer.
start(c, b, inv) ==
  IF inv.op = "presignedUploadUrl" /\ contentTypeRejected(inv)
  THEN [pc |-> "done", signerLog |-> <<>>, outcome |-> Throw(contentTypeError(inv))]
  ELSE [pc |-> "signing", signerLog |-> <<signRequestOf(c, b, inv)>>,
        outcome |-> Pending]

\* The signer resolved: a presign operation returns, a direct one calls fetch.
afterSign(inv, signReq, signedRequest) ==
  CASE inv.op = "presignedUploadUrl" ->
         [pc |-> "done", httpLog |-> <<>>,
          outcome |-> Return(presignedUploadUrlResult(inv, signedRequest))]
    [] inv.op = "presignedDownloadUrl" ->
         [pc |-> "done", httpLog |-> <<>>,
          outcome |-> Return(presignedDownloadUrlResult(inv, signedRequest))]
    [] OTHER ->
         [pc |-> "fetching", httpLog |-> <<fetchRequestOf(inv, signReq, signedRequest)>>,
          outcome |-> Pending]

onRejectRethrows(inv, reason) == Throw(reason)
onRejectDeleteSwallows(inv, reason) ==
  IF inv.op \in ExistenceOps THEN Return(FALSE)
  ELSE IF inv.op = "deleteObject" THEN Return(Undefined) ELSE Throw(reason)
\* An await rejected: the try/catch of exists and objectExists returns false,
\* every other operation lets the rejection through.
onReject(inv, reason) ==
  IF inv.op \in ExistenceOps THEN Return(FALSE) ELSE Throw(reason)

throwsOnResponseNever404(op, response) ==
  ~responseOk(response) /\ response.status # 404
throwsOnResponseAlways(op, response) == ~responseOk(response)
\* The condition of the throw after fetch: !response.ok, and for deleteObject
\* !response.ok && response.status !== 404.
throwsOnResponse(op, response) ==
  IF op = "deleteObject" THEN ~responseOk(response) /\ response.status # 404
  ELSE ~responseOk(response)

\* What an operation settles to once fetch has resolved; Pending when it goes
\* on to read the body.
outcomeOfResponse(inv, signReq, response) ==
  CASE inv.op \in ExistenceOps -> Return(responseOk(response))
    [] throwsOnResponse(inv.op, response) ->
         Throw(failedError(failedWhat(inv.op), response))
    [] inv.op \in BodyOps -> Pending
    [] inv.op = "uploadFile" -> Return(uploadFileResult(inv, signReq.body[1], response))
    [] inv.op = "deleteObject" -> Return(Undefined)
    [] inv.op = "getObject" -> Return(getObjectResult(inv, response))

afterFetchRetriesOnce(inv, signReq, log, response) ==
  IF ~responseOk(response) /\ Len(log) = 1
  THEN [pc |-> "fetching", httpLog |-> Append(log, log[1]), outcome |-> Pending]
  ELSE LET o == outcomeOfResponse(inv, signReq, response)
       IN [pc |-> IF o = Pending THEN "reading" ELSE "done", httpLog |-> log,
           outcome |-> o]
\* fetch resolved with a response: the operation settles, or awaits the body;
\* it issues no further request.
afterFetch(inv, signReq, log, response) ==
  LET o == outcomeOfResponse(inv, signReq, response)
  IN [pc |-> IF o = Pending THEN "reading" ELSE "done", httpLog |-> log, outcome |-> o]

\* response.text() resolved: listBuckets and getInfo parse the body.
afterText(b, inv, xml) ==
  IF inv.op = "listBuckets" THEN Return(parseBucketsXml(xml))
  ELSE Return([name |-> b.name, location |-> parseLocationXml(xml)])

\* ------------------------------------------------------------ the service

Statuses == {200, 204, 299, 300, 404, 500}
StatusText(status) ==
  CASE status = 200 -> "OK"
    [] status = 204 -> "No Content"
    [] status = 299 -> ""
    [] status = 300 -> "Multiple Choices"
    [] status = 404 -> "Not Found"
    [] status = 500 -> "Internal Server Error"

NoHeaders == <<>>
SampleObjectHeaders ==
  (<<"content-type">> :> <<"a", "/", "a">>) @@ (<<"content-length">> :> <<"4", "2">>)
  @@ (<<"etag">> :> <<Quote, "abc123", Quote>>)
  @@ (<<"last-modified">> :> <<"Wed, 21 Oct 2015 07:28:00 GMT">>)
  @@ (<<"x-amz-meta-", "b">> :> <<"1">>)
SampleUploadHeaders == (<<"etag">> :> <<Quote, "abc123", Quote>>)
\* An entity tag may be weak (W/"...") and may be empty ("").
EmptyEtagHeaders == (<<"etag">> :> <<Quote, Quote>>)
WeakEtagHeaders ==
  (<<"etag">> :> <<"W/", Quote, "abc123", Quote>>)
  @@ (<<"content-length">> :> <<"4", "2", "x">>)
\* Metadata stored under the key __proto__, alone and beside another key.
ProtoObjectHeaders == (<<"x-amz-meta-", "__proto__">> :> <<"1">>)
ProtoAndOtherHeaders ==
  (<<"x-amz-meta-", "__proto__">> :> <<"1">>) @@ (<<"x-amz-meta-">> :> <<"2">>)
\* Headers whose values are no number and no date.
OddObjectHeaders ==
  (<<"content-length">> :> <<"a", "b", "c">>) @@ (<<"last-modified">> :> <<"yesterday">>)
  @@ (<<"etag">> :> <<Quote, Quote>>)

\* The x-amz-meta- headers (and the content type) a PUT carried, as the
\* service gives them back on a GET of the object.
StoredHeaders(received) ==
  [n \in {m \in DOMAIN received : StartsWith(m, MetaPrefix) \/ m = <<"content-type">>}
     |-> received[n]]

ListBodies ==
  {<<>>,
   <<"<Buckets>", "<Bucket>", "<Name>", "gallery", "</Name>", "<CreationDate>",
     "2024-01-01T00:00:00.000Z", "</CreationDate>", "</Bucket>", "<Bucket>",
     "<CreationDate>", "2024-01-01T00:00:00.000Z", "</CreationDate>", "</Bucket>",
     "<Bucket>", "<Name>", Space, "uploads", "</Name>", "</Bucket>", "</Buckets>">>,
   <<"<Buckets>", "<Bucket>", "<Name>", "</Name>", "<CreationDate>",
     "2024-01-01T00:00:00.000Z", "</CreationDate>", "</Bucket>", "<Bucket>", "<Name>",
     Space, "</Name>", "</Bucket>", "<Bucket>", "<Name>", "logs", "</Name>",
     "<CreationDate>", "</CreationDate>", "</Bucket>", "</Buckets>">>}
LocationBodies ==
  {<<>>, <<"<LocationConstraint>", "</LocationConstraint>">>,
   <<"<LocationConstraint>", "weur", Space, "</LocationConstraint>">>,
   <<"<LocationConstraint>", Space, "</LocationConstraint>">>,
   <<"<LocationConstraint>", "auto", "</LocationConstraint>">>}

ObjectBodies == {<<>>, <<"b1", "b2">>}

ResponseHeaderSets(inv, request, lp) ==
  CASE inv.op = "getObject" ->
         {NoHeaders, SampleObjectHeaders, WeakEtagHeaders, OddObjectHeaders,
          ProtoObjectHeaders, ProtoAndOtherHeaders}
         \cup (IF IsDefined(lp) /\ lp[1].url = request.url
               THEN {StoredHeaders(lp[1].received)} ELSE {})
    [] inv.op = "uploadFile" ->
         {NoHeaders, SampleUploadHeaders, EmptyEtagHeaders, WeakEtagHeaders}
    [] OTHER -> {NoHeaders}

ResponseBodies(inv) ==
  CASE inv.op = "listBuckets" -> ListBodies
    [] inv.op = "getInfo" -> LocationBodies
    [] inv.op = "getObject" -> ObjectBodies
    [] OTHER -> {<<>>}

\* The responses the service may give to a request.
ServerResponses(inv, request, lp) ==
  {[status |-> st, statusText |-> StatusText(st), headers |-> h, body |-> bd] :
     st \in Statuses, h \in ResponseHeaderSets(inv, request, lp),
     bd \in ResponseBodies(inv)}

\* ---------------------------------------------------------------- state

VARIABLES
  client,         \* the R2Client: awsClient, baseUrl
  bucket,         \* the R2Bucket handle: name, awsClient, baseUrl
  pc,             \* idle, signing, fetching, reading, done
  call,           \* the invocation in flight: op and arguments
  signerLog,      \* the requests this invocation made of the signer
  httpLog,        \* the HTTP requests this invocation issued
  signedRequest,  \* what the signer resolved to, if it has
  response,       \* what fetch resolved to, if it has
  netFailed,      \* fetch or response.text() rejected
  bodyUsed,       \* response.text() has been called on the response
  outcome,        \* pending, return value, or thrown value
  lastPut,        \* the last successful upload: url, metadata given, headers received
  deleteRun,      \* consecutive deleteObject calls of one key answered 404
  frames,         \* concurrent invocations: the local state of each
  asked,          \* concurrent invocations: what each caller invoked
  cli             \* the upload command: its React state, locals and timers

vars == <<client, bucket, pc, call, signerLog, httpLog, signedRequest, response,
          netFailed, bodyUsed, outcome, lastPut, deleteRun, frames, asked, cli>>

Configs ==
  {[accountId |-> a, accessKeyId |-> <<"key">>, secretAccessKey |-> <<"secret">>] :
     a \in AccountIds}

NoCall == Inv("none", NoArgs)
NoRun == [key |-> <<>>, n |-> 0]

\* The callers that may have an invocation in flight at the same time, and
\* the local state of an invocation: its arguments and local constants.
Callers == 1..MaxInFlight
\* No upload command is running.
NoApp == [step |-> "none"]
IdleFrame ==
  [pc |-> "idle", call |-> NoCall, signerLog |-> <<>>, httpLog |-> <<>>,
   signedRequest |-> Undefined, response |-> Undefined, netFailed |-> FALSE,
   bodyUsed |-> FALSE, outcome |-> Pending]

Init ==
  /\ \E config \in Configs, name \in BucketNames :
       /\ client = NewR2Client(config)
       /\ bucket = NewR2Bucket(NewR2Client(config), name)
  /\ pc = "idle"
  /\ call = NoCall
  /\ signerLog = <<>>
  /\ httpLog = <<>>
  /\ signedRequest = Undefined
  /\ response = Undefined
  /\ netFailed = FALSE
  /\ bodyUsed = FALSE
  /\ outcome = Pending
  /\ lastPut = Undefined
  /\ deleteRun = NoRun
  /\ frames = [p \in Callers |-> IdleFrame]
  /\ asked = [p \in Callers |-> NoCall]
  /\ cli = NoApp

\* --------------------------------------------------------------- actions

\* The caller invokes an operation; it runs to its first await.
Invoke(inv) ==
  /\ pc = "idle"
  /\ inv.op = "deleteObject" /\ deleteRun.key = inv.key => deleteRun.n < MaxRun
  /\ LET st == start(client, bucket, inv)
     IN /\ pc' = st.pc
        /\ signerLog' = st.signerLog
        /\ outcome' = st.outcome
  /\ call' = inv
  /\ deleteRun' = IF inv.op = "deleteObject" /\ deleteRun.key = inv.key
                  THEN deleteRun ELSE NoRun
  /\ UNCHANGED <<cli, frames, asked, client, bucket, httpLog, signedRequest, response, netFailed, bodyUsed,
                 lastPut>>

\* awsClient.sign resolves.
SignerResolve ==
  /\ pc = "signing"
  /\ LET signed == Sign(signerLog[Len(signerLog)])
         st == afterSign(call, signerLog[Len(signerLog)], signed)
     IN /\ signedRequest' = Some(signed)
        /\ pc' = st.pc
        /\ httpLog' = st.httpLog
        /\ outcome' = st.outcome
  /\ UNCHANGED <<cli, frames, asked, client, bucket, call, signerLog, response, netFailed, bodyUsed, lastPut,
                 deleteRun>>

\* awsClient.sign rejects.
SignerReject ==
  /\ pc = "signing"
  /\ pc' = "done"
  /\ outcome' = onReject(call, SignerError)
  /\ deleteRun' = NoRun
  /\ UNCHANGED <<cli, frames, asked, client, bucket, call, signerLog, httpLog, signedRequest, response,
                 netFailed, bodyUsed, lastPut>>

\* fetch resolves with a response of the service; listBuckets and getInfo go
\* on to call response.text().  A stored upload is remembered, and forgotten
\* when its object is deleted.
FetchResolve(resp) ==
  /\ LET st == afterFetch(call, signerLog[Len(signerLog)], httpLog, resp)
     IN /\ pc' = st.pc
        /\ httpLog' = st.httpLog
        /\ outcome' = st.outcome
        /\ bodyUsed' = (st.pc = "reading")
  /\ response' = Some(resp)
  /\ lastPut' =
       IF call.op = "uploadFile" /\ responseOk(resp)
       THEN Some([url |-> httpLog[Len(httpLog)].url, metadata |-> call.metadata,
                  received |-> httpLog[Len(httpLog)].headers])
       ELSE IF /\ call.op = "deleteObject" /\ responseOk(resp)
               /\ IsDefined(lastPut) /\ lastPut[1].url = httpLog[Len(httpLog)].url
       THEN Undefined
       ELSE lastPut
  /\ deleteRun' = IF call.op = "deleteObject" /\ resp.status = 404
                  THEN [key |-> call.key, n |-> deleteRun.n + 1] ELSE NoRun
  /\ UNCHANGED <<cli, frames, asked, client, bucket, call, signerLog, signedRequest, netFailed>>

\* fetch rejects: a network-level failure.
FetchReject ==
  /\ pc = "fetching"
  /\ pc' = "done"
  /\ netFailed' = TRUE
  /\ outcome' = onReject(call, NetworkError)
  /\ deleteRun' = NoRun
  /\ UNCHANGED <<cli, frames, asked, client, bucket, call, signerLog, httpLog, signedRequest, response,
                 bodyUsed, lastPut>>

\* response.text() resolves with the body.
TextResolve ==
  /\ pc = "reading"
  /\ pc' = "done"
  /\ outcome' = afterText(bucket, call, response[1].body)
  /\ UNCHANGED <<cli, frames, asked, client, bucket, call, signerLog, httpLog, signedRequest, response,
                 netFailed, bodyUsed, lastPut, deleteRun>>

\* response.text() rejects: the connection failed while the body was read.
TextReject ==
  /\ pc = "reading"
  /\ pc' = "done"
  /\ netFailed' = TRUE
  /\ outcome' = onReject(call, NetworkError)
  /\ UNCHANGED <<cli, frames, asked, client, bucket, call, signerLog, httpLog, signedRequest, response,
                 bodyUsed, lastPut, deleteRun>>

\* The caller has the outcome; the handle is ready for the next invocation.
Complete ==
  /\ pc = "done"
  /\ pc' = "idle"
  /\ call' = NoCall
  /\ signerLog' = <<>>
  /\ httpLog' = <<>>
  /\ signedRequest' = Undefined
  /\ response' = Undefined
  /\ netFailed' = FALSE
  /\ bodyUsed' = FALSE
  /\ outcome' = Pending
  /\ UNCHANGED <<cli, frames, asked, client, bucket, lastPut, deleteRun>>

\* ------------------------------------------------------- specifications

UploadTypes == {<<"a", "/", "a">>}

KeyInvocations(op) == {Inv(op, [NoArgs EXCEPT !.key = k]) : k \in ObjectKeys}

PresignedDownloadInvocations ==
  {Inv("presignedDownloadUrl", [NoArgs EXCEPT !.key = k, !.expiresIn = e]) :
     k \in ObjectKeys, e \in ExpiresIns}

\* Every file with no metadata, and every metadata mapping with one file.
UploadInvocations ==
  {Inv("uploadFile", [NoArgs EXCEPT !.key = k, !.file = f, !.contentType = ct]) :
     k \in ObjectKeys, f \in Files, ct \in UploadTypes}
  \cup
  {Inv("uploadFile", [NoArgs EXCEPT !.key = k, !.contentType = ct, !.metadata = Some(m),
                                    !.file = [kind |-> "string", type |-> <<>>,
                                              data |-> <<"h", "e-acute">>]]) :
     k \in ObjectKeys, ct \in UploadTypes, m \in Metadatas}

\* Every content type against every single pattern and every short list of
\* the core patterns.
AllowedLists ==
  {Undefined} \cup {Some(l) : l \in SeqsUpTo(CorePatterns, MaxPatterns)}
  \cup {Some(<<p>>) : p \in AllStrings}
MatchInvocations ==
  {Inv("presignedUploadUrl", [NoArgs EXCEPT !.key = <<"a.png">>, !.contentType = ct,
                                            !.allowedContentTypes = al]) :
     ct \in AllStrings, al \in AllowedLists}

\* The other options of presignedUploadUrl against each other.
OptionInvocations ==
  {Inv("presignedUploadUrl", [NoArgs EXCEPT !.key = <<"a.png">>, !.contentType = ct,
                                            !.metadata = m, !.expiresIn = e,
                                            !.maxFileSize = mx,
                                            !.allowedContentTypes = al]) :
     ct \in CoreTypes, m \in {Undefined} \cup {Some(x) : x \in PresignMetadatas},
     e \in ExpiresIns, mx \in MaxFileSizes,
     al \in {Undefined, Some(<<>>), Some(<< <<"a", "/", "*">> >>)}}

PresignInvocations ==
  MatchInvocations \cup OptionInvocations \cup PresignedDownloadInvocations

Invocations ==
  {Inv(op, NoArgs) : op \in {"listBuckets", "getInfo", "exists"}}
  \cup KeyInvocations("objectExists") \cup KeyInvocations("deleteObject")
  \cup KeyInvocations("getObject")
  \cup PresignedDownloadInvocations \cup UploadInvocations

Next ==
  \/ /\ pc = "idle"
     /\ \E inv \in Invocations : Invoke(inv)
  \/ SignerResolve
  \/ SignerReject
  \/ /\ pc = "fetching"
     /\ \E resp \in ServerResponses(call, httpLog[Len(httpLog)], lastPut) :
          FetchResolve(resp)
  \/ FetchReject
  \/ TextResolve
  \/ TextReject
  \/ Complete

Spec == Init /\ [][Next]_vars

NextPresign ==
  \/ /\ pc = "idle"
     /\ \E inv \in PresignInvocations : Invoke(inv)
  \/ SignerResolve
  \/ SignerReject
  \/ Complete

SpecPresign == Init /\ [][NextPresign]_vars

\* ------------------------------------------------ handles of one client

\* R2Client.bucket(name): synchronous; the caller goes on with the handle.
BucketCall(name) ==
  /\ pc = "idle"
  /\ call' = Inv("bucket", [NoArgs EXCEPT !.name = name])
  /\ bucket' = NewR2Bucket(client, name)
  /\ outcome' = Return(NewR2Bucket(client, name))
  /\ pc' = "done"
  /\ UNCHANGED <<cli, frames, asked, client, signerLog, httpLog, signedRequest, response,
                 netFailed, bodyUsed, lastPut, deleteRun>>

HandleAccounts == {<<"abc123">>, <<"acct", "-", "2">>}
HandleNames == {<<"gallery">>, <<"up", ".", "loads">>}
HandleKeys == {<<"a.png">>, <<"dir", "/", "a b?.png">>}
HandleConfigs ==
  {[accountId |-> a, accessKeyId |-> <<"key">>, secretAccessKey |-> <<"secret">>] :
     a \in HandleAccounts}

InitHandles ==
  /\ \E config \in HandleConfigs, name \in HandleNames :
       /\ client = NewR2Client(config)
       /\ bucket = NewR2Bucket(NewR2Client(config), name)
  /\ pc = "idle"
  /\ call = NoCall
  /\ signerLog = <<>>
  /\ httpLog = <<>>
  /\ signedRequest = Undefined
  /\ response = Undefined
  /\ netFailed = FALSE
  /\ bodyUsed = FALSE
  /\ outcome = Pending
  /\ lastPut = Undefined
  /\ deleteRun = NoRun
  /\ frames = [p \in Callers |-> IdleFrame]
  /\ asked = [p \in Callers |-> NoCall]
  /\ cli = NoApp

HandleInvocations ==
  {Inv(op, NoArgs) : op \in {"listBuckets", "getInfo", "exists"}}
  \cup {Inv(op, [NoArgs EXCEPT !.key = k]) :
          op \in {"objectExists", "deleteObject", "getObject", "presignedDownloadUrl"},
          k \in HandleKeys}
  \cup {Inv("uploadFile", [NoArgs EXCEPT !.key = k, !.contentType = <<"a", "/", "a">>,
                                         !.file = [kind |-> "string", type |-> <<>>,
                                                   data |-> <<"h", "e-acute">>]]) :
          k \in HandleKeys}
  \cup {Inv("presignedUploadUrl", [NoArgs EXCEPT !.key = k, !.contentType = <<"a", "/", "a">>]) :
          k \in HandleKeys}

HandleResponses(inv, request, lp) ==
  {r \in ServerResponses(inv, request, lp) :
     r.status \in {200, 404} /\ r.headers = NoHeaders /\ r.body = <<>>}

NextHandles ==
  \/ \E name \in HandleNames : BucketCall(name)
  \/ /\ pc = "idle"
     /\ \E inv \in HandleInvocations : Invoke(inv)
  \/ SignerResolve
  \/ SignerReject
  \/ /\ pc = "fetching"
     /\ \E resp \in HandleResponses(call, httpLog[Len(httpLog)], lastPut) :
          FetchResolve(resp)
  \/ FetchReject
  \/ TextResolve
  \/ TextReject
  \/ Complete

SpecHandles == InitHandles /\ [][NextHandles]_vars

\* ------------------------------------------- several invocations in flight

\* Each invocation of an async method has its own arguments and local
\* constants (signedRequest, response, xml, ...): caller p's are in frame p.
frameOfShared(p) == 1
frameOf(p) == p

soloVars == <<client, bucket, pc, call, signerLog, httpLog, signedRequest, response,
              netFailed, bodyUsed, outcome, lastPut, deleteRun, cli>>

ConcurrentInvocations ==
  {Inv(op, NoArgs) : op \in {"listBuckets", "getInfo", "exists"}}
  \cup {Inv(op, [NoArgs EXCEPT !.key = <<"a.png">>]) :
          op \in {"objectExists", "deleteObject", "getObject", "presignedDownloadUrl"}}
  \cup {Inv("uploadFile", [NoArgs EXCEPT !.key = <<"a.png">>, !.contentType = <<"a", "/", "a">>,
                                         !.metadata = Some(<< <<(<<"a">>), <<"1">> >> >>),
                                         !.file = [kind |-> "string", type |-> <<>>,
                                                   data |-> <<"h", "e-acute">>]])}
  \cup {Inv("presignedUploadUrl", [NoArgs EXCEPT !.key = <<"a.png">>, !.contentType = ct,
                                                 !.allowedContentTypes =
                                                    Some(<< <<"a", "/", "*">> >>)]) :
          ct \in {<<"a", "/", "a">>, <<"*">>}}

\* The responses drawn while several invocations are in flight.
ConcurrentResponses(inv, request) ==
  {r \in ServerResponses(inv, request, Undefined) :
     /\ r.status \in {200, 404}
     /\ r.headers \in {SampleObjectHeaders, SampleUploadHeaders}
                        \cup (IF inv.op \in {"getObject", "uploadFile"} THEN {} ELSE {NoHeaders})
     /\ r.body \in {<<>>,
                     <<"<LocationConstraint>", "weur", Space, "</LocationConstraint>">>,
                     <<"<Buckets>", "<Bucket>", "<Name>", "</Name>", "<CreationDate>",
                       "2024-01-01T00:00:00.000Z", "</CreationDate>", "</Bucket>",
                       "<Bucket>", "<Name>", Space, "</Name>", "</Bucket>", "<Bucket>",
                       "<Name>", "logs", "</Name>", "<CreationDate>", "</CreationDate>",
                       "</Bucket>", "</Buckets>">>}}

\* Caller p invokes an operation while others may be in flight.
ConcurrentInvoke(p, inv) ==
  /\ asked[p] = NoCall
  /\ LET st == start(client, bucket, inv)
     IN frames' = [frames EXCEPT ![frameOf(p)] =
                     [IdleFrame EXCEPT !.pc = st.pc, !.call = inv,
                                       !.signerLog = st.signerLog, !.outcome = st.outcome]]
  /\ asked' = [asked EXCEPT ![p] = inv]
  /\ UNCHANGED soloVars

ConcurrentSignerResolve(p) ==
  /\ asked[p] # NoCall
  /\ frames[frameOf(p)].pc = "signing"
  /\ LET f == frames[frameOf(p)]
         signed == Sign(f.signerLog[Len(f.signerLog)])
         st == afterSign(f.call, f.signerLog[Len(f.signerLog)], signed)
     IN frames' = [frames EXCEPT ![frameOf(p)] =
                     [f EXCEPT !.signedRequest = Some(signed), !.pc = st.pc,
                               !.httpLog = st.httpLog, !.outcome = st.outcome]]
  /\ UNCHANGED <<asked, soloVars>>

ConcurrentSignerReject(p) ==
  /\ asked[p] # NoCall
  /\ frames[frameOf(p)].pc = "signing"
  /\ LET f == frames[frameOf(p)]
     IN frames' = [frames EXCEPT ![frameOf(p)] =
                     [f EXCEPT !.pc = "done", !.outcome = onReject(f.call, SignerError)]]
  /\ UNCHANGED <<asked, soloVars>>

ConcurrentFetchResolve(p, resp) ==
  /\ LET f == frames[frameOf(p)]
         st == afterFetch(f.call, f.signerLog[Len(f.signerLog)], f.httpLog, resp)
     IN frames' = [frames EXCEPT ![frameOf(p)] =
                     [f EXCEPT !.pc = st.pc, !.httpLog = st.httpLog,
                               !.outcome = st.outcome, !.response = Some(resp),
                               !.bodyUsed = (st.pc = "reading")]]
  /\ UNCHANGED <<asked, soloVars>>

ConcurrentFetchReject(p) ==
  /\ asked[p] # NoCall
  /\ frames[frameOf(p)].pc = "fetching"
  /\ LET f == frames[frameOf(p)]
     IN frames' = [frames EXCEPT ![frameOf(p)] =
                     [f EXCEPT !.pc = "done", !.netFailed = TRUE,
                               !.outcome = onReject(f.call, NetworkError)]]
  /\ UNCHANGED <<asked, soloVars>>

ConcurrentTextResolve(p) ==
  /\ asked[p] # NoCall
  /\ frames[frameOf(p)].pc = "reading"
  /\ LET f == frames[frameOf(p)]
     IN frames' = [frames EXCEPT ![frameOf(p)] =
                     [f EXCEPT !.pc = "done",
                               !.outcome = afterText(bucket, f.call, f.response[1].body)]]
  /\ UNCHANGED <<asked, soloVars>>

ConcurrentTextReject(p) ==
  /\ asked[p] # NoCall
  /\ frames[frameOf(p)].pc = "reading"
  /\ LET f == frames[frameOf(p)]
     IN frames' = [frames EXCEPT ![frameOf(p)] =
                     [f EXCEPT !.pc = "done", !.netFailed = TRUE,
                               !.outcome = onReject(f.call, NetworkError)]]
  /\ UNCHANGED <<asked, soloVars>>

\* Caller p has its outcome.
ConcurrentComplete(p) ==
  /\ asked[p] # NoCall
  /\ frames[frameOf(p)].pc = "done"
  /\ frames' = [frames EXCEPT ![frameOf(p)] = IdleFrame]
  /\ asked' = [asked EXCEPT ![p] = NoCall]
  /\ UNCHANGED soloVars

NextConcurrent ==
  \/ \E p \in Callers, inv \in ConcurrentInvocations : ConcurrentInvoke(p, inv)
  \/ \E p \in Callers : ConcurrentSignerResolve(p)
  \/ \E p \in Callers : ConcurrentSignerReject(p)
  \/ \E p \in Callers :
        /\ asked[p] # NoCall
        /\ frames[frameOf(p)].pc = "fetching"
        /\ \E resp \in ConcurrentResponses(frames[frameOf(p)].call,
                                            frames[frameOf(p)].httpLog[1]) :
              ConcurrentFetchResolve(p, resp)
  \/ \E p \in Callers : ConcurrentFetchReject(p)
  \/ \E p \in Callers : ConcurrentTextResolve(p)
  \/ \E p \in Callers : ConcurrentTextReject(p)
  \/ \E p \in Callers : ConcurrentComplete(p)

SpecConcurrent == Init /\ [][NextConcurrent]_vars

\* ------------------------------------------ the upload command (App.tsx)

\* The App component runs performUpload once, from its effect.  The model
\* cuts performUpload at its awaits (the 500 ms timer, uploadFile,
\* presignedDownloadUrl), runs the two storage calls with the actions of the
\* client above, and interleaves the callbacks of the progress interval and
\* of the exit timer with them.  State updates made in one step are shown
\* together, as React batches them.

\* The literals of performUpload.
MinChunkSize == 1048576
ChunkCount == 20
TickMs == 100
DownloadExpiresIn == 3600

\* A JavaScript number that is the quotient n / d of two integers: 0 / 0 is
\* NaN and n / 0, n > 0, is Infinity.
Quotient(n, d) == [num |-> n, den |-> d]
Whole(n) == Quotient(n, 1)
\* Elapsed time is counted in periods of the progress interval.
TicksPerSecond == 1000 \div TickMs
Max(a, b) == IF a >= b THEN a ELSE b
Min(a, b) == IF a <= b THEN a ELSE b

\* getMimeType(filename): the type of the extension, or the default.
getMimeType(filename) ==
  CASE EndsWith(filename, <<"a.png">>) -> <<"image/png">>
    [] EndsWith(filename, <<"missing.txt">>) -> <<"text/plain">>
    [] OTHER -> <<"application/octet-stream">>

\* What the file system holds: the size statSync reports and the content
\* readFileSync reads 500 ms later.  Sizes above 20 MiB are multiples of 20.
CliFileSizes == {0, 3, 3145728, 20971540}
DiskContents == {<<>>, <<"b1", "b2", "b3">>}
\* What statSync and readFileSync throw.
FsError(syscall) == Error(<<"ENOENT: no such file or directory, ", syscall>>)

CliConfigs ==
  {[file |-> <<"./a.png">>, bucket |-> b, key |-> k] : b \in BucketNames, k \in ObjectKeys}

\* The component as mounted: the initial values of its useState hooks, and
\* the locals and timers of performUpload.
NewApp(config, credentials, disk) ==
  [config |-> config, credentials |-> credentials, disk |-> disk,
   step |-> "mounted",
   status |-> "initializing", percentage |-> Whole(0), transferRate |-> Whole(0),
   estimatedTime |-> Whole(0), logs |-> <<>>, downloadUrl |-> <<>>,
   error |-> Undefined, fileSize |-> 0,
   statsSize |-> 0, uploadedBytes |-> 0, chunkSize |-> 0, ticks |-> 0,
   interval |-> "unset", exitTimers |-> 0, exitCalls |-> 0]

\* addLog(message, type): the entry is appended (its timestamp is display only).
addLog(c, message, type) ==
  [c EXCEPT !.logs = Append(@, [message |-> message, type |-> type])]

\* err instanceof Error ? err.message : 'Unknown error occurred'
errorMessageOf(err) ==
  IF err.type \in {"Error", "TypeError", "SignerError"} THEN err.message
  ELSE <<"Unknown error occurred">>

cliCatchKeepsStatus(c, err) ==
  addLog([c EXCEPT !.error = Some(errorMessageOf(err)), !.step = "exiting",
                   !.exitTimers = @ + 1],
         <<"Upload failed: ">> \o errorMessageOf(err), "error")
cliCatchNoExit(c, err) ==
  addLog([c EXCEPT !.error = Some(errorMessageOf(err)), !.status = "error",
                   !.step = "exiting"],
         <<"Upload failed: ">> \o errorMessageOf(err), "error")
\* The catch block: the error is shown and logged, and exit is scheduled.
\* The progress interval is not cleared here.
cliCatch(c, err) ==
  addLog([c EXCEPT !.error = Some(errorMessageOf(err)), !.status = "error",
                   !.step = "exiting", !.exitTimers = @ + 1],
         <<"Upload failed: ">> \o errorMessageOf(err), "error")

\* statSync returned: up to the await of the 500 ms timer.
afterStat(c, size) ==
  addLog([c EXCEPT !.fileSize = size, !.statsSize = size, !.step = "handshake"],
         <<"Initializing secure handshake with R2-E1...">>, "info")

\* After the timer: the log entry and setStatus('uploading').
showUploading(c) ==
  addLog([c EXCEPT !.status = "uploading"],
         <<"Payload delivered. Starting edge-layer optimization.">>, "info")

\* The locals of the simulated progress, and setInterval.
startProgress(c) ==
  [c EXCEPT !.uploadedBytes = 0,
            !.chunkSize = Max(c.statsSize \div ChunkCount, MinChunkSize),
            !.ticks = 0, !.interval = "active", !.step = "uploading"]

\* The arguments of bucket.uploadFile and bucket.presignedDownloadUrl.
uploadInv(c) ==
  Inv("uploadFile",
      [NoArgs EXCEPT !.key = c.config.key, !.contentType = getMimeType(c.config.key),
                     !.metadata = Some(<< <<(<<"uploaded-at">>), <<"now">> >>,
                                          <<(<<"original-filename">>), c.config.key>> >>),
                     !.file = [kind |-> "Blob", type |-> getMimeType(c.config.key),
                               data |-> c.disk.content]])
downloadInv(c) ==
  Inv("presignedDownloadUrl",
      [NoArgs EXCEPT !.key = c.config.key, !.expiresIn = Some(DownloadExpiresIn)])

\* The callback of the progress interval.  Once exit() has unmounted the
\* component the setters have no effect.
progressTick(c) ==
  LET uploaded == Min(c.uploadedBytes + c.chunkSize, c.statsSize)
      elapsed == c.ticks + 1
      local == [c EXCEPT !.uploadedBytes = uploaded, !.ticks = @ + 1,
                         !.interval = IF uploaded >= c.statsSize THEN "cleared" ELSE @]
  IN IF c.step = "exited" THEN local
     ELSE [local EXCEPT
             !.percentage = Quotient(uploaded * 100, c.statsSize),
             !.transferRate = Quotient(uploaded * TicksPerSecond, elapsed),
             !.estimatedTime = Quotient((c.statsSize - uploaded) * elapsed,
                                        uploaded * TicksPerSecond)]

uploadReturnedKeepsInterval(c, elapsed) ==
  addLog([c EXCEPT !.percentage = Whole(100),
                   !.transferRate = Quotient(c.statsSize * TicksPerSecond, elapsed),
                   !.estimatedTime = Whole(0), !.step = "presigning"],
         <<"Transfer complete. Resource available at edge node.">>, "success")
\* uploadFile returned, in the period after the last tick: the interval is
\* cleared, the progress is set to its final values and the success entry is
\* logged.
uploadReturned(c, elapsed) ==
  addLog([c EXCEPT !.interval = IF @ = "active" THEN "cleared" ELSE @,
                   !.percentage = Whole(100),
                   !.transferRate = Quotient(c.statsSize * TicksPerSecond, elapsed),
                   !.estimatedTime = Whole(0), !.step = "presigning"],
         <<"Transfer complete. Resource available at edge node.">>, "success")

\* presignedDownloadUrl returned: the URL is shown, the status is complete,
\* and exit is scheduled.
downloadReturned(c, result) ==
  [c EXCEPT !.downloadUrl = result.url, !.status = "complete", !.step = "exiting",
            !.exitTimers = @ + 1]

\* The locals of the storage call in flight.
callVars == <<pc, call, signerLog, httpLog, signedRequest, response, netFailed,
              bodyUsed, outcome>>

\* The component is mounted and no storage call has been made.
InitCli ==
  /\ \E config \in CliConfigs, credentials \in Configs, size \in CliFileSizes,
        content \in DiskContents :
       cli = NewApp(config, credentials, [size |-> size, content |-> content])
  /\ client = Undefined
  /\ bucket = Undefined
  /\ pc = "idle"
  /\ call = NoCall
  /\ signerLog = <<>>
  /\ httpLog = <<>>
  /\ signedRequest = Undefined
  /\ response = Undefined
  /\ netFailed = FALSE
  /\ bodyUsed = FALSE
  /\ outcome = Pending
  /\ lastPut = Undefined
  /\ deleteRun = NoRun
  /\ frames = [p \in Callers |-> IdleFrame]
  /\ asked = [p \in Callers |-> NoCall]

\* The effect runs performUpload up to its first await: statSync throws, or
\* the size is shown and the handshake timer is set.
CliMount ==
  /\ cli.step = "mounted"
  /\ \/ cli' = cliCatch(cli, FsError("stat"))
     \/ cli' = afterStat(cli, cli.disk.size)
  /\ UNCHANGED <<client, bucket, callVars, lastPut, deleteRun, frames, asked>>

\* The 500 ms timer fires: the client and the handle are made, the status is
\* uploading; readFileSync throws, or the interval is set and uploadFile is
\* called and runs to its first await.
CliHandshakeDone ==
  /\ cli.step = "handshake"
  /\ LET r2 == NewR2Client(cli.credentials)
         b == NewR2Bucket(r2, cli.config.bucket)
     IN /\ client' = r2
        /\ bucket' = b
        /\ \/ /\ cli' = cliCatch(showUploading(cli), FsError("open"))
              /\ UNCHANGED callVars
           \/ LET st == start(r2, b, uploadInv(cli))
              IN /\ cli' = startProgress(showUploading(cli))
                 /\ call' = uploadInv(cli)
                 /\ pc' = st.pc
                 /\ signerLog' = st.signerLog
                 /\ outcome' = st.outcome
                 /\ UNCHANGED <<httpLog, signedRequest, response, netFailed, bodyUsed>>
  /\ UNCHANGED <<lastPut, deleteRun, frames, asked>>

\* The progress interval fires.  A timer callback is a task: it does not run
\* between the settling of a storage call and the continuation awaiting it.
CliTick ==
  /\ cli.step \in {"uploading", "presigning", "exiting", "exited"}
  /\ cli.interval = "active"
  /\ pc # "done"
  /\ cli' = progressTick(cli)
  /\ UNCHANGED <<client, bucket, callVars, lastPut, deleteRun, frames, asked>>

\* uploadFile settled: on a result the progress is completed and
\* presignedDownloadUrl is called and runs to its first await; on a rejection
\* the catch block runs.
CliUploadSettled ==
  /\ cli.step = "uploading"
  /\ pc = "done"
  /\ \/ /\ outcome.kind = "return"
        /\ cli' = uploadReturned(cli, cli.ticks + 1)
        /\ LET st == start(client, bucket, downloadInv(cli))
           IN /\ call' = downloadInv(cli)
              /\ pc' = st.pc
              /\ signerLog' = st.signerLog
              /\ outcome' = st.outcome
     \/ /\ outcome.kind = "throw"
        /\ cli' = cliCatch(cli, outcome.value)
        /\ call' = NoCall
        /\ pc' = "idle"
        /\ signerLog' = <<>>
        /\ outcome' = Pending
  /\ httpLog' = <<>>
  /\ signedRequest' = Undefined
  /\ response' = Undefined
  /\ netFailed' = FALSE
  /\ bodyUsed' = FALSE
  /\ UNCHANGED <<client, bucket, lastPut, deleteRun, frames, asked>>

\* presignedDownloadUrl settled: the result is shown and exit is scheduled,
\* or the catch block runs.
CliDownloadSettled ==
  /\ cli.step = "presigning"
  /\ pc = "done"
  /\ cli' = IF outcome.kind = "return" THEN downloadReturned(cli, outcome.value)
            ELSE cliCatch(cli, outcome.value)
  /\ call' = NoCall
  /\ pc' = "idle"
  /\ signerLog' = <<>>
  /\ outcome' = Pending
  /\ httpLog' = <<>>
  /\ signedRequest' = Undefined
  /\ response' = Undefined
  /\ netFailed' = FALSE
  /\ bodyUsed' = FALSE
  /\ UNCHANGED <<client, bucket, lastPut, deleteRun, frames, asked>>

\* The 100 ms timer set on either path fires: exit() is called.
CliExit ==
  /\ cli.step = "exiting"
  /\ cli.exitTimers > 0
  /\ cli' = [cli EXCEPT !.exitTimers = @ - 1, !.exitCalls = @ + 1, !.step = "exited"]
  /\ UNCHANGED <<client, bucket, callVars, lastPut, deleteRun, frames, asked>>

\* The answers of the service to the upload's PUT.
CliResponses(inv, request, lp) ==
  {r \in ServerResponses(inv, request, lp) :
     r.status \in {200, 500} /\ r.headers \in {NoHeaders, SampleUploadHeaders}}

\* Every step of the command but the ticks of the progress interval.
CliProgress ==
  \/ CliMount
  \/ CliHandshakeDone
  \/ SignerResolve
  \/ SignerReject
  \/ /\ pc = "fetching"
     /\ \E resp \in CliResponses(call, httpLog[Len(httpLog)], lastPut) : FetchResolve(resp)
  \/ FetchReject
  \/ CliUploadSettled
  \/ CliDownloadSettled
  \/ CliExit

NextCli == CliProgress \/ CliTick

SpecCli == InitCli /\ [][NextCli]_vars

\* The timers fire, and each file access and storage call returns or fails.
SpecCliFair == SpecCli /\ WF_vars(CliProgress)

\* ================================================================ claims

\* The matching rule as the specification words it: a pattern ending in "/*"
\* matches the types that begin with the pattern up to and including that "/".
EndsInSlashStar(p) == Len(p) >= 2 /\ p[Len(p) - 1] = "/" /\ p[Len(p)] = "*"
BeginsWith(t, q) == Len(q) <= Len(t) /\ \A i \in 1..Len(q) : t[i] = q[i]
StatedMatch(p, t) ==
  IF EndsInSlashStar(p) THEN BeginsWith(t, SubSeq(p, 1, Len(p) - 1)) ELSE t = p
StatedPass(inv) ==
  \/ ~IsDefined(inv.allowedContentTypes)
  \/ inv.allowedContentTypes[1] = <<>>
  \/ \E i \in 1..Len(inv.allowedContentTypes[1]) :
        StatedMatch(inv.allowedContentTypes[1][i], inv.contentType)

InCall(op) == call.op = op /\ pc # "idle"

\* C1: a presignedUploadUrl call whose content type matches none of a
\* non-empty allowedContentTypes list is over at once with a thrown Error whose
\* message holds the rejected content type and every allowed pattern, and it
\* has made no signer request and no HTTP request.
C1_RejectedLocally ==
  (InCall("presignedUploadUrl") /\ ~StatedPass(call)) =>
     /\ pc = "done"
     /\ outcome.kind = "throw"
     /\ outcome.value.type = "Error"
     /\ Contains(outcome.value.message, <<"Content type '">> \o call.contentType)
     /\ \A i \in 1..Len(call.allowedContentTypes[1]) :
           Contains(outcome.value.message, call.allowedContentTypes[1][i])
     /\ signerLog = <<>>
     /\ httpLog = <<>>
     /\ ~IsDefined(signedRequest)
     /\ ~IsDefined(response)

C1_Witness ==
  /\ InCall("presignedUploadUrl")
  /\ call.allowedContentTypes = Some(<< <<"a", "/", "*">>, <<"*">> >>)
  /\ call.contentType = <<"a", "a", "/">>
  /\ outcome.kind = "throw"

\* C2: a presignedUploadUrl call passes validation (it reaches the signer and
\* throws no validation error) exactly when allowedContentTypes is absent or
\* empty or some pattern matches by the stated rule.
C2_ValidationRule ==
  InCall("presignedUploadUrl") =>
     /\ (signerLog # <<>>) <=> StatedPass(call)
     /\ (outcome.kind = "throw" /\ outcome.value.type = "Error") <=> ~StatedPass(call)

C2_Witness ==
  /\ InCall("presignedUploadUrl")
  /\ call.allowedContentTypes = Some(<< <<"a", "/", "*">> >>)
  /\ call.contentType = <<"a", "/", "*">>
  /\ outcome.kind = "return"

\* C3: a presignedUploadUrl call that passes validation makes exactly one
\* signer request and no HTTP request; the request is a PUT of the object URL,
\* query-signed over all headers, expiring after expiresIn or 86400 seconds,
\* and exactly one of its headers is named Content-Type (in any case); its
\* value is the content type given.
C3_UploadSignRequest ==
  (InCall("presignedUploadUrl") /\ StatedPass(call)) =>
     /\ Len(signerLog) = 1
     /\ httpLog = <<>>
     /\ LET req == signerLog[1]
            hs == req.headers[1]
        IN /\ req.method = "PUT"
           /\ req.url = bucket.baseUrl \o <<"/">> \o bucket.name \o <<"/">> \o call.key
           /\ req.aws.signQuery = TRUE
           /\ req.aws.allHeaders = Some(TRUE)
           /\ req.aws.expires =
                Some(IF call.expiresIn = <<>> THEN 86400 ELSE call.expiresIn[1])
           /\ IsDefined(req.headers)
           /\ Cardinality({i \in 1..Len(hs) : ToLowerCase(hs[i][1]) = <<"content-type">>}) = 1
           /\ \A i \in 1..Len(hs) :
                 ToLowerCase(hs[i][1]) = <<"content-type">> => hs[i][2] = call.contentType

C3_Witness ==
  /\ InCall("presignedUploadUrl")
  /\ pc = "done"
  /\ outcome.kind = "return"
  /\ IsDefined(call.metadata)
  /\ \E i \in 1..Len(call.metadata[1]) : call.metadata[1][i][1] = <<"Content-Type">>
  /\ call.expiresIn = Undefined

ObjectStored(key) ==
  IsDefined(lastPut) /\ lastPut[1].url = bucket.baseUrl \o <<"/">> \o bucket.name \o <<"/">> \o key

\* C4: presignedDownloadUrl makes exactly one signer request (a query-signed
\* GET of the object URL without headers, expiring after expiresIn or 3600
\* seconds) and no HTTP request; once the signer has answered, the call has
\* returned the signer's URL with an empty contentType, whether or not the
\* object is stored, and it throws only what the signer threw.
C4_DownloadSignRequest ==
  InCall("presignedDownloadUrl") =>
     /\ Len(signerLog) = 1
     /\ httpLog = <<>>
     /\ ~IsDefined(response)
     /\ LET req == signerLog[1]
        IN /\ req.method = "GET"
           /\ req.url = bucket.baseUrl \o <<"/">> \o bucket.name \o <<"/">> \o call.key
           /\ req.aws.signQuery = TRUE
           /\ req.headers = Undefined
           /\ req.aws.expires =
                Some(IF call.expiresIn = <<>> THEN 3600 ELSE call.expiresIn[1])
     /\ IsDefined(signedRequest) =>
           /\ pc = "done"
           /\ outcome.kind = "return"
           /\ outcome.value.url = signedRequest[1].url
           /\ outcome.value.contentType = <<>>
           /\ outcome.value.key = call.key
     /\ outcome.kind = "throw" => ~IsDefined(signedRequest) /\ outcome.value = SignerError

C4_Witness ==
  /\ InCall("presignedDownloadUrl")
  /\ call.key = <<"missing.txt">>
  /\ call.expiresIn = Undefined
  /\ ~ObjectStored(call.key)
  /\ IsDefined(lastPut)
  /\ outcome.kind = "return"

Is2xx(status) == status \in 200..299

C6_DeleteTolerates404 ==
  (InCall("deleteObject") /\ IsDefined(response)) =>
     /\ pc = "done"
     /\ LET r == response[1]
        IN IF Is2xx(r.status) \/ r.status = 404
           THEN /\ outcome = Return(Undefined)
                /\ r.status = 404 => deleteRun.n >= 1 /\ deleteRun.key = call.key
           ELSE /\ outcome.kind = "throw"
                /\ outcome.value.type = "Error"
                /\ Contains(outcome.value.message, <<ToString(r.status), " ", r.statusText>>)
                /\ deleteRun.n = 0

C6_Witness ==
  /\ InCall("deleteObject")
  /\ pc = "done"
  /\ ~ObjectStored(call.key)
  /\ deleteRun = [key |-> call.key, n |-> MaxRun]
  /\ IsDefined(response)
  /\ response[1].status = 404
  /\ outcome.kind = "return"

\* C7: in listBuckets, getInfo, uploadFile and getObject, once the response
\* is in, the call has thrown an Error carrying the status and the status
\* text exactly when the status is outside 200..299 (404 included); with a
\* status in 200..299 it returns a result: at once for uploadFile and
\* getObject, and for listBuckets and getInfo when the body has been read.
C7_Non2xxRaises ==
  (pc # "idle" /\ call.op \in {"listBuckets", "getInfo", "uploadFile", "getObject"}
     /\ IsDefined(response)) =>
     LET r == response[1]
         raised == outcome.kind = "throw" /\ outcome.value.type = "Error"
     IN /\ raised <=> ~Is2xx(r.status)
        /\ raised =>
              /\ pc = "done"
              /\ Contains(outcome.value.message, <<ToString(r.status), " ", r.statusText>>)
        /\ Is2xx(r.status) =>
              \/ pc = "done" /\ outcome.kind = "return"
              \/ call.op \in {"listBuckets", "getInfo"} /\ pc = "reading"
              \/ call.op \in {"listBuckets", "getInfo"} /\ pc = "done" /\ netFailed

C7_Witness ==
  /\ InCall("getObject")
  /\ pc = "done"
  /\ IsDefined(response)
  /\ response[1].status = 404
  /\ outcome.kind = "throw"
  /\ outcome.value.message = <<"Get object", " failed: ", "404", " ", "Not Found">>

\* C8: when the network fails (fetch rejects, or reading the body does), the
\* call is over; exists and objectExists have returned FALSE and every other
\* operation has thrown the network's own error, so none has returned.
C8_TransportFailureSurfaces ==
  netFailed =>
     /\ pc = "done"
     /\ call.op \in DirectOps
     /\ IF call.op \in {"exists", "objectExists"}
        THEN outcome = Return(FALSE)
        ELSE outcome.kind = "throw" /\ outcome.value = NetworkError

C8_Witness ==
  /\ netFailed
  /\ call.op = "deleteObject"
  /\ ~IsDefined(response)
  /\ outcome.kind = "throw"

\* C9: an invocation of a direct operation has issued no HTTP request while
\* the signer has not answered, and exactly one from then on, whatever the
\* response or failure.
C9_OneRequestPerInvocation ==
  (pc # "idle" /\ call.op \in DirectOps) =>
     /\ Len(signerLog) = 1
     /\ Len(httpLog) = (IF IsDefined(signedRequest) THEN 1 ELSE 0)
     /\ (IsDefined(response) \/ netFailed) => Len(httpLog) = 1

C9_Witness ==
  /\ call.op = "uploadFile"
  /\ pc = "done"
  /\ IsDefined(response)
  /\ response[1].status = 500
  /\ Len(httpLog) = 1

\* A metadata key without the prefix, and the header name it is sent under.
Unprefixed(k) == IF BeginsWith(k, MetaPrefix) THEN SubSeq(k, Len(MetaPrefix) + 1, Len(k)) ELSE k
StatedHeaderName(k) == MetaPrefix \o Unprefixed(k)
MetaHeaders(h) == [n \in {m \in DOMAIN h : BeginsWith(m, MetaPrefix)} |-> h[n]]

\* getObject has returned for an object whose last upload gave metadata, and
\* the response carried the x-amz-meta- headers of that upload's PUT.
RoundTripDone ==
  /\ InCall("getObject")
  /\ pc = "done"
  /\ outcome.kind = "return"
  /\ ObjectStored(call.key)
  /\ IsDefined(lastPut[1].metadata)
  /\ MetaHeaders(response[1].headers) = MetaHeaders(lastPut[1].received)

\* Entry i of the uploaded metadata is in getObject's result under its key
\* without the prefix, compared case-insensitively, with its value.
Retrieved(i) ==
  LET M == lastPut[1].metadata[1]
      got == outcome.value.metadata
  IN /\ IsDefined(got)
     /\ \E k \in DOMAIN got[1] :
           /\ ToLowerCase(k) = ToLowerCase(Unprefixed(M[i][1]))
           /\ got[1][k] = M[i][2]

\* No two keys of the mapping name the same header, compared case-insensitively.
DistinctHeaderNames(M) ==
  \A i, j \in 1..Len(M) :
     ToLowerCase(StatedHeaderName(M[i][1])) = ToLowerCase(StatedHeaderName(M[j][1])) => i = j

MetadataHeaderNames(req) ==
  {req.headers[1][i][1] : i \in 2..Len(req.headers[1])}

\* C11: the metadata-key normalization is idempotent: for every metadata key
\* given to presignedUploadUrl or uploadFile, normalizing the normalized key
\* gives the normalized key again, and every metadata header name the call
\* hands to the signer is left unchanged by the normalization.
C11_HeaderKeyIdempotent ==
  (pc # "idle" /\ call.op \in {"presignedUploadUrl", "uploadFile"}
     /\ IsDefined(call.metadata)) =>
     /\ \A i \in 1..Len(call.metadata[1]) :
           headerKey(headerKey(call.metadata[1][i][1])) = headerKey(call.metadata[1][i][1])
     /\ signerLog # <<>> =>
           \A n \in MetadataHeaderNames(signerLog[1]) : headerKey(n) = n

C11_Witness ==
  /\ InCall("presignedUploadUrl")
  /\ IsDefined(call.metadata)
  /\ {call.metadata[1][i][1] : i \in 1..Len(call.metadata[1])}
        = {<<"x-amz-meta-", "a">>, <<"X-AMZ-META-", "a">>}
  /\ signerLog # <<>>
  /\ MetadataHeaderNames(signerLog[1])
        = {<<"x-amz-meta-", "a">>, <<"x-amz-meta-", "X-AMZ-META-", "a">>}

\* The <Bucket>...</Bucket> blocks of a body, as pairs of positions.
BucketBlocks(xml) ==
  {b \in (1..Len(xml)) \X (1..Len(xml)) :
     /\ b[1] < b[2] /\ xml[b[1]] = "<Bucket>" /\ xml[b[2]] = "</Bucket>"
     /\ \A k \in (b[1] + 1)..(b[2] - 1) : xml[k] \notin {"<Bucket>", "</Bucket>"}}
HasTag(xml, b, t) == \E k \in (b[1] + 1)..(b[2] - 1) : xml[k] = t
\* The text between the first t and the closing tag after it, inside block b.
ElemText(xml, b, t, closing) ==
  LET k == CHOOSE k \in (b[1] + 1)..(b[2] - 1) :
             xml[k] = t /\ \A o \in (b[1] + 1)..(k - 1) : xml[o] # t
      l == CHOOSE l \in (k + 1)..(b[2] - 1) :
             xml[l] = closing /\ \A o \in (k + 1)..(l - 1) : xml[o] # closing
  IN SubSeq(xml, k + 1, l - 1)
Blank(str) == \A i \in 1..Len(str) : str[i] = Space
\* A text without the white space around it.
Stripped(str) ==
  LET ns == {i \in 1..Len(str) : str[i] # Space}
  IN IF ns = {} THEN <<>>
     ELSE SubSeq(str, CHOOSE lo \in ns : \A o \in ns : lo <= o,
                      CHOOSE hi \in ns : \A o \in ns : hi >= o)
HasName(xml, b) == HasTag(xml, b, "<Name>")
HasNameText(xml, b) == HasName(xml, b) /\ ~Blank(ElemText(xml, b, "<Name>", "</Name>"))
HasDateText(xml, b) ==
  /\ HasTag(xml, b, "<CreationDate>")
  /\ ~Blank(ElemText(xml, b, "<CreationDate>", "</CreationDate>"))

\* listBuckets has read the body of a 2xx response.
ListDone ==
  /\ InCall("listBuckets") /\ pc = "done" /\ ~netFailed
  /\ IsDefined(response) /\ Is2xx(response[1].status)

\* The result lists the blocks of `named` in document order, each with its
\* name, its creation date when it has one, and the location 'auto'.
ListsBlocks(result, xml, named) ==
  /\ Len(result) = Cardinality(named)
  /\ \A b \in named :
        LET d == result[Cardinality({o \in named : o[1] < b[1]}) + 1]
        IN /\ d.name = Stripped(ElemText(xml, b, "<Name>", "</Name>"))
           /\ d.location = <<"auto">>
           /\ IsDefined(d.creationDate) <=> HasDateText(xml, b)
           /\ HasDateText(xml, b) =>
                 d.creationDate[1].time
                   = Stripped(ElemText(xml, b, "<CreationDate>", "</CreationDate>"))[1]

\* C12 as stated: one descriptor for each block that has a <Name>.
C12_OnePerBlockWithNameTag ==
  ListDone =>
     /\ outcome.kind = "return"
     /\ ListsBlocks(outcome.value, response[1].body,
                    {b \in BucketBlocks(response[1].body) : HasName(response[1].body, b)})

\* C12, amended: on a 2xx response listBuckets returns one descriptor for each
\* <Bucket> block whose <Name> holds text that is not blank, in document
\* order, each with the trimmed name, the creation date when <CreationDate>
\* holds text, and the location 'auto'; a block without <Name>, or with an
\* empty or blank one, gives no descriptor and no failure.
C12_OnePerNamedBlock ==
  ListDone =>
     /\ outcome.kind = "return"
     /\ ListsBlocks(outcome.value, response[1].body,
                    {b \in BucketBlocks(response[1].body) : HasNameText(response[1].body, b)})

C12_Witness ==
  /\ ListDone
  /\ Cardinality(BucketBlocks(response[1].body)) = 3
  /\ Len(outcome.value) = 2
  /\ outcome.value[1].name = <<"gallery">>
  /\ outcome.value[2] =
       [name |-> <<"uploads">>, creationDate |-> Undefined, location |-> <<"auto">>]

\* getInfo has read the body of a 2xx response.
InfoDone ==
  /\ InCall("getInfo") /\ pc = "done" /\ ~netFailed
  /\ IsDefined(response) /\ Is2xx(response[1].status)
WholeBody(xml) == <<0, Len(xml) + 1>>
HasLocationTag(xml) == HasTag(xml, WholeBody(xml), "<LocationConstraint>")
LocationText(xml) ==
  ElemText(xml, WholeBody(xml), "<LocationConstraint>", "</LocationConstraint>")

\* C13 as stated: the location is the text of the tag, or 'auto' when the tag
\* is missing or empty.
C13_LocationIsTagText ==
  InfoDone =>
     LET xml == response[1].body
     IN outcome = Return([name |-> bucket.name,
                          location |-> IF HasLocationTag(xml) /\ LocationText(xml) # <<>>
                                       THEN LocationText(xml) ELSE <<"auto">>])

\* C13, amended: on a 2xx response getInfo returns the handle's own bucket
\* name together with the text of <LocationConstraint> without the white space
\* around it, or 'auto' when the tag is missing, empty or blank.
C13_LocationIsTrimmedText ==
  InfoDone =>
     LET xml == response[1].body
     IN outcome = Return([name |-> bucket.name,
                          location |-> IF HasLocationTag(xml) /\ ~Blank(LocationText(xml))
                                       THEN Stripped(LocationText(xml)) ELSE <<"auto">>])

C13_Witness ==
  /\ InfoDone
  /\ response[1].body = <<"<LocationConstraint>", "weur", Space, "</LocationConstraint>">>
  /\ outcome = Return([name |-> <<"gallery">>, location |-> <<"weur">>])

\* uploadFile or getObject has returned a result.
Succeeded(op) == InCall(op) /\ pc = "done" /\ outcome.kind = "return"
HasHeader(name) == name \in DOMAIN response[1].headers
RECURSIVE WithoutQuotes(_)
WithoutQuotes(v) ==
  IF v = <<>> THEN <<>>
  ELSE IF Head(v) = Quote THEN WithoutQuotes(Tail(v))
  ELSE <<Head(v)>> \o WithoutQuotes(Tail(v))
EtagHeaderWithoutQuotes == WithoutQuotes(response[1].headers[<<"etag">>])

\* C14 as stated: the etag is the ETag header without its double quotes, and
\* there is none when the header is absent.
C14_EtagIsHeaderWithoutQuotes ==
  (Succeeded("uploadFile") \/ Succeeded("getObject")) =>
     outcome.value.etag =
       IF HasHeader(<<"etag">>) THEN Some(EtagHeaderWithoutQuotes) ELSE Undefined

\* C14, amended: on success uploadFile and getObject report as etag the ETag
\* header without its double quotes, and report none when the header is
\* absent or holds nothing but double quotes.
C14_EtagIsNonEmptyHeaderWithoutQuotes ==
  (Succeeded("uploadFile") \/ Succeeded("getObject")) =>
     outcome.value.etag =
       IF HasHeader(<<"etag">>) /\ EtagHeaderWithoutQuotes # <<>>
       THEN Some(EtagHeaderWithoutQuotes) ELSE Undefined

C14_Witness ==
  /\ Succeeded("getObject")
  /\ HasHeader(<<"etag">>)
  /\ response[1].headers[<<"etag">>] = <<Quote, "abc123", Quote>>
  /\ outcome.value.etag = Some(<<"abc123">>)

\* A header value that can be read as an integer in decimal (it begins with
\* digits), and the integer those digits hold.
IsInteger(str) == str # <<>> /\ str[1] \in Digits
LeadingDigits(str) ==
  SubSeq(str, 1, CHOOSE n \in 1..Len(str) :
                   /\ \A i \in 1..n : str[i] \in Digits
                   /\ n < Len(str) => str[n + 1] \notin Digits)
RECURSIVE DecimalValue(_)
DecimalValue(str) ==
  IF str = <<>> THEN 0
  ELSE DecimalValue(SubSeq(str, 1, Len(str) - 1)) * 10 + DigitValue(str[Len(str)])
\* A header value that is a date.
IsDate(str) == Len(str) = 1 /\ str[1] \in DateStrings

\* C15 as stated: getObject's size is the integer of Content-Length, and 0
\* when the header is absent or is no integer; its lastModified is the date of
\* Last-Modified, and the time of the call when the header is absent or is no
\* date.
C15_SizeAndDateDefaults ==
  Succeeded("getObject") =>
     LET hs == response[1].headers
         len == <<"content-length">>
         mod == <<"last-modified">>
     IN /\ outcome.value.size =
             IF HasHeader(len) /\ IsInteger(hs[len])
             THEN [nan |-> FALSE, value |-> DecimalValue(LeadingDigits(hs[len]))]
             ELSE [nan |-> FALSE, value |-> 0]
        /\ outcome.value.lastModified =
             IF HasHeader(mod) /\ IsDate(hs[mod])
             THEN [valid |-> TRUE, time |-> hs[mod][1]]
             ELSE [valid |-> TRUE, time |-> "now"]

\* getObject has returned a size that is no number and a lastModified that is
\* no date, for a response whose Content-Length and Last-Modified are neither.
C15_Witness ==
  /\ Succeeded("getObject")
  /\ HasHeader(<<"content-length">>)
  /\ response[1].headers[<<"content-length">>] = <<"a", "b", "c">>
  /\ response[1].headers[<<"last-modified">>] = <<"yesterday">>
  /\ outcome.value.size.nan
  /\ ~outcome.value.lastModified.valid

\* The fields of getObject's result other than the body.
Descriptor(result) ==
  [key |-> result.key, contentType |-> result.contentType, size |-> result.size,
   lastModified |-> result.lastModified, etag |-> result.etag,
   metadata |-> result.metadata]

\* C16: when getObject has returned, response.text() was never called, the
\* body returned is the response fetch resolved to, and the other fields are
\* what they would be for any other body under the same status and headers.
C16_BodyUnconsumed ==
  Succeeded("getObject") =>
     /\ ~bodyUsed
     /\ pc # "reading"
     /\ outcome.value.body = response[1]
     /\ \A other \in ObjectBodies :
           Descriptor(outcome.value)
             = Descriptor(getObjectResult(call, [response[1] EXCEPT !.body = other]))

C16_Witness ==
  /\ Succeeded("getObject")
  /\ response[1].body = <<"b1", "b2">>
  /\ response[1].headers = SampleObjectHeaders
  /\ outcome.value.body.body = <<"b1", "b2">>
  /\ outcome.value.size = Number(42)
  /\ ~bodyUsed

\* What an invocation does running alone: the signer request it makes, the
\* HTTP request it issues once the signer has answered with `signed`, and the
\* outcome it settles to given the answers its frame f received.
AloneSignerLog(inv) == start(client, bucket, inv).signerLog
AloneHttpLog(inv, f) ==
  IF AloneSignerLog(inv) = <<>> \/ ~IsDefined(f.signedRequest) THEN <<>>
  ELSE afterSign(inv, AloneSignerLog(inv)[1], Sign(AloneSignerLog(inv)[1])).httpLog
AloneOutcome(inv, f) ==
  LET st == start(client, bucket, inv)
  IN IF st.pc = "done" THEN st.outcome
     ELSE IF ~IsDefined(f.signedRequest) THEN onReject(inv, SignerError)
     ELSE LET signed == Sign(st.signerLog[1])
              as == afterSign(inv, st.signerLog[1], signed)
          IN IF as.pc = "done" THEN as.outcome
             ELSE IF ~IsDefined(f.response) THEN onReject(inv, NetworkError)
             ELSE LET af == afterFetch(inv, st.signerLog[1], as.httpLog, f.response[1])
                  IN IF af.pc = "done" THEN af.outcome
                     ELSE IF f.netFailed THEN onReject(inv, NetworkError)
                     ELSE afterText(bucket, inv, f.response[1].body)

AsAlone(p) ==
  LET f == frames[p]
  IN /\ f.call = asked[p]
     /\ f.pc # "idle"
     /\ f.signerLog = AloneSignerLog(asked[p])
     /\ f.httpLog = AloneHttpLog(asked[p], f)
     /\ f.pc = "done" => f.outcome = AloneOutcome(asked[p], f)
     /\ f.pc # "done" => f.outcome = Pending

\* C17: with several invocations in flight on one client and handle, under
\* every interleaving of their steps each has made the signer request and the
\* HTTP request, and has settled to the outcome, that it makes and settles to
\* alone given the same answers; and no step changes the client (base URL,
\* signer) or the handle (bucket name, base URL, signer).
C17_ConcurrentAsAlone ==
  /\ [](\A p \in Callers : asked[p] # NoCall => AsAlone(p))
  /\ [][client' = client /\ bucket' = bucket]_vars

C17_Witness ==
  /\ asked[1].op = "getInfo"
  /\ asked[2].op = "uploadFile"
  /\ frames[1].pc = "reading"
  /\ frames[2].pc = "done"
  /\ frames[2].outcome.kind = "return"
  /\ frames[1].httpLog[1].url # frames[2].httpLog[1].url

\* C18: R2Client.bucket(name) is over at once, having made no signer request
\* and no HTTP request; the handle it returns has the name asked for and the
\* client's base URL and signer, so it is the one handle there is for that
\* name and client; and no step changes the client.
C18_BucketIsPure ==
  /\ [](InCall("bucket") =>
          /\ pc = "done"
          /\ signerLog = <<>> /\ httpLog = <<>>
          /\ ~IsDefined(signedRequest) /\ ~IsDefined(response)
          /\ outcome.kind = "return"
          /\ outcome.value.name = call.name
          /\ outcome.value.baseUrl = client.baseUrl
          /\ outcome.value.awsClient = client.awsClient
          /\ DOMAIN outcome.value = {"name", "baseUrl", "awsClient"}
          /\ bucket = outcome.value)
  /\ [][client' = client]_vars

\* bucket(name) has returned a handle for another name than that of the
\* handle in use before, after an upload through the earlier handle.
C18_Witness ==
  /\ InCall("bucket")
  /\ call.name = <<"up", ".", "loads">>
  /\ outcome.value.name = <<"up", ".", "loads">>
  /\ IsDefined(lastPut)
  /\ Contains(lastPut[1].url, <<"gallery">>)

\* The URL an operation targets, as stated, for account a, bucket b and the
\* key of the invocation.
StatedBaseUrl(a) == <<"https://">> \o a \o <<".r2.cloudflarestorage.com">>
StatedUrl(a, b, inv) ==
  CASE inv.op = "listBuckets" -> StatedBaseUrl(a)
    [] inv.op = "getInfo" -> StatedBaseUrl(a) \o <<"/">> \o b \o <<"?location">>
    [] inv.op = "exists" -> StatedBaseUrl(a) \o <<"/">> \o b \o <<"/">>
    [] OTHER -> StatedBaseUrl(a) \o <<"/">> \o b \o <<"/">> \o inv.key

\* C19: every signer request of an operation on the handle for bucket b of
\* the client for account a targets the stated URL: the object operations
\* https://a.r2.cloudflarestorage.com/b/k, exists .../b/, getInfo
\* .../b?location and listBuckets the base URL, with a, b and k verbatim.
C19_UrlShape ==
  (pc # "idle" /\ call.op \in DirectOps \cup PresignOps) =>
     /\ signerLog # <<>>
     /\ \E cfg \in HandleConfigs : client = NewR2Client(cfg)
     /\ \A cfg \in HandleConfigs :
           client = NewR2Client(cfg) =>
              \A i \in 1..Len(signerLog) :
                 signerLog[i].url = StatedUrl(cfg.accountId, bucket.name, call)

C19_Witness ==
  /\ InCall("getInfo")
  /\ client = NewR2Client([accountId |-> <<"acct", "-", "2">>, accessKeyId |-> <<"key">>,
                           secretAccessKey |-> <<"secret">>])
  /\ signerLog # <<>>
  /\ signerLog[1].url = <<"https://", "acct", "-", "2", ".r2.cloudflarestorage.com", "/",
                          "up", ".", "loads", "?location">>

\* C20 as stated: a presignedUploadUrl result has the key, content type and
\* metadata given and the expiry handed to the signer, and it carries the
\* maxFileSize and the allowedContentTypes whenever the caller gave them.
C20_ResultEchoesInputs ==
  Succeeded("presignedUploadUrl") =>
     /\ outcome.value.key = call.key
     /\ outcome.value.contentType = call.contentType
     /\ outcome.value.metadata = call.metadata
     /\ Some(outcome.value.expiresIn) = signerLog[1].aws.expires
     /\ IsDefined(call.maxFileSize) => outcome.value.maxFileSize = call.maxFileSize
     /\ IsDefined(call.allowedContentTypes) =>
           outcome.value.allowedContentTypes = call.allowedContentTypes

\* presignedUploadUrl was given maxFileSize 0 and an empty allowedContentTypes,
\* and its result carries the list and no maxFileSize.
C20_Witness ==
  /\ Succeeded("presignedUploadUrl")
  /\ call.maxFileSize = Some(0)
  /\ call.allowedContentTypes = Some(<<>>)
  /\ outcome.value.maxFileSize = Undefined
  /\ outcome.value.allowedContentTypes = Some(<<>>)

\* The call in flight with another maxFileSize and nothing else changed.
WithMaxFileSize(mx) == [call EXCEPT !.maxFileSize = mx]

\* C21: a presignedUploadUrl call passes or fails validation, and hands the
\* signer the request (URL, method, headers, expiry, signing mode), exactly as
\* the call with any other maxFileSize and the same other arguments does; and
\* a call that is given a maxFileSize throws only the validation error of its
\* content type or what the signer threw.
C21_MaxFileSizeAdvisory ==
  InCall("presignedUploadUrl") =>
     /\ \A mx \in MaxFileSizes :
           LET other == start(client, bucket, WithMaxFileSize(mx))
           IN /\ (other.outcome.kind = "throw") <=> ~StatedPass(call)
              /\ other.signerLog = signerLog
              /\ (pc = "done" /\ signerLog = <<>>) => other.outcome = outcome
     /\ outcome.kind = "throw" =>
           \/ ~StatedPass(call) /\ signerLog = <<>>
           \/ outcome.value = SignerError

C21_Witness ==
  /\ Succeeded("presignedUploadUrl")
  /\ call.maxFileSize = Some(5)
  /\ call.allowedContentTypes = Some(<< <<"a", "/", "*">> >>)
  /\ signerLog = start(client, bucket, WithMaxFileSize(Undefined)).signerLog
  /\ Len(signerLog) = 1

\* The secret access key the client was constructed with, and the strings
\* that hold it.
Secret == client.awsClient.secretAccessKey
HoldsSecret(str) == Contains(str, Secret)
\* The strings of a signer request built by the client: its URL and the
\* names and values of its headers.
SignRequestStrings(req) ==
  {req.url}
  \cup (IF IsDefined(req.headers)
        THEN UNION {{req.headers[1][i][1], req.headers[1][i][2]} :
                      i \in 1..Len(req.headers[1])}
        ELSE {})
\* The strings of an HTTP request: its URL and its headers.
HttpRequestStrings(req) ==
  {req.url} \cup DOMAIN req.headers \cup {req.headers[n] : n \in DOMAIN req.headers}
\* The string fields of a result that the client fills in.
ResultStrings(op, v) ==
  CASE op \in PresignOps -> {v.url, v.key, v.contentType}
    [] op = "uploadFile" -> {v.key, v.contentType} \cup {v.etag[i] : i \in 1..Len(v.etag)}
    [] op = "getObject" -> {v.key}
    [] op = "getInfo" -> {v.name, v.location}
    [] op = "listBuckets" -> {v[i].name : i \in 1..Len(v)}
    [] OTHER -> {}

\* C22: the secret access key is in no URL and no header of any signer
\* request or HTTP request of an operation and in no field of its result, and
\* the url of a presigned result is the URL the signer returned.
C22_SecretStaysWithSigner ==
  (pc # "idle" /\ call.op \in DirectOps \cup PresignOps) =>
     /\ \A i \in 1..Len(signerLog) :
           \A str \in SignRequestStrings(signerLog[i]) : ~HoldsSecret(str)
     /\ \A i \in 1..Len(httpLog) :
           \A str \in HttpRequestStrings(httpLog[i]) : ~HoldsSecret(str)
     /\ outcome.kind = "return" =>
           \A str \in ResultStrings(call.op, outcome.value) : ~HoldsSecret(str)
     /\ (outcome.kind = "return" /\ call.op \in PresignOps) =>
           /\ IsDefined(signedRequest)
           /\ outcome.value.url = signedRequest[1].url

C22_Witness ==
  /\ Succeeded("presignedUploadUrl")
  /\ Secret = <<"secret">>
  /\ outcome.value.url = signedRequest[1].url
  /\ Contains(outcome.value.url, <<"&X-Amz-Signature=", "sig">>)

\* The URL a direct operation targets, under the client's base URL.
TargetUrl(inv) ==
  CASE inv.op = "listBuckets" -> client.baseUrl
    [] inv.op = "getInfo" -> client.baseUrl \o <<"/">> \o bucket.name \o <<"?location">>
    [] inv.op = "exists" -> client.baseUrl \o <<"/">> \o bucket.name \o <<"/">>
    [] OTHER -> client.baseUrl \o <<"/">> \o bucket.name \o <<"/">> \o inv.key

\* C25: in a direct operation every HTTP request follows a signer request of
\* that invocation that has returned, made in header mode (signQuery false)
\* for the request's method and the operation's target URL; the HTTP request
\* goes to the URL the signer returned with the headers the signer returned;
\* and when the signer fails no HTTP request is issued.
C25_SignedThenSent ==
  (pc # "idle" /\ call.op \in DirectOps) =>
     /\ \A i \in 1..Len(signerLog) : signerLog[i].aws.signQuery = FALSE
     /\ \A i \in 1..Len(httpLog) :
           /\ IsDefined(signedRequest)
           /\ \E j \in 1..Len(signerLog) :
                 /\ signerLog[j].method = httpLog[i].method
                 /\ signerLog[j].url = TargetUrl(call)
                 /\ signedRequest[1] = Sign(signerLog[j])
           /\ httpLog[i].url = signedRequest[1].url
           /\ httpLog[i].headers = signedRequest[1].headers
     /\ ~IsDefined(signedRequest) => httpLog = <<>>
     /\ (pc = "done" /\ ~IsDefined(signedRequest)) =>
           /\ outcome # Pending
           /\ ~IsDefined(response)

C25_Witness ==
  /\ InCall("deleteObject")
  /\ pc = "done"
  /\ Len(httpLog) = 1
  /\ httpLog[1].method = "DELETE"
  /\ httpLog[1].url = signedRequest[1].url
  /\ <<"authorization">> \in DOMAIN httpLog[1].headers

\* The header object an operation hands to the signer for the arguments of
\* the presignedUploadUrl in flight: presignedUploadUrl itself, and uploadFile
\* of file f with the same key, content type and metadata.
SignerHeaderObjects ==
  {signerLog[i].headers[1] : i \in 1..Len(signerLog)}
  \cup {uploadFileSign(bucket, [call EXCEPT !.op = "uploadFile", !.file = f]).headers[1] :
          f \in Files}

\* The header object has a property of this name with this value.
HasProperty(obj, name, v) == \E i \in 1..Len(obj) : obj[i] = <<name, v>>

\* The last entry of the mapping whose key names the header that entry i names.
LastNaming(M, i) ==
  CHOOSE j \in i..Len(M) :
     /\ StatedHeaderName(M[j][1]) = StatedHeaderName(M[i][1])
     /\ \A l \in (j + 1)..Len(M) : StatedHeaderName(M[l][1]) # StatedHeaderName(M[i][1])

MetadataGiven ==
  InCall("presignedUploadUrl") /\ signerLog # <<>> /\ IsDefined(call.metadata)

\* C26 as stated: for every entry (k, v) of every metadata mapping given, the
\* header object handed to the signer has the header x-amz-meta-k (k itself
\* when k already begins with x-amz-meta-) with the value v.
C26_EveryEntryIsAHeader ==
  MetadataGiven =>
     \A obj \in SignerHeaderObjects :
        \A i \in 1..Len(call.metadata[1]) :
           HasProperty(obj, StatedHeaderName(call.metadata[1][i][1]), call.metadata[1][i][2])

\* C26, amended: for every entry (k, v) of every metadata mapping given, the
\* header object handed to the signer has the header x-amz-meta-k (k itself
\* when k already begins with x-amz-meta-), and its value is that of the last
\* entry of the mapping whose key names that header: v itself whenever no
\* later entry is the bare or the prefixed form of k.
C26_LastEntryOfAHeaderWins ==
  MetadataGiven =>
     \A obj \in SignerHeaderObjects :
        \A i \in 1..Len(call.metadata[1]) :
           LET M == call.metadata[1]
           IN /\ HasProperty(obj, StatedHeaderName(M[i][1]), M[LastNaming(M, i)][2])
              /\ \A v \in MetaValues :
                    HasProperty(obj, StatedHeaderName(M[i][1]), v)
                       => v = M[LastNaming(M, i)][2]

C26_Witness ==
  /\ MetadataGiven
  /\ call.metadata[1] = << <<(<<"a">>), <<"1">> >>, <<(<<"x-amz-meta-", "a">>), <<"2">> >> >>
  /\ HasProperty(signerLog[1].headers[1], <<"x-amz-meta-", "a">>, <<"2">>)
  /\ ~HasProperty(signerLog[1].headers[1], <<"x-amz-meta-", "a">>, <<"1">>)

\* The response headers whose name, lower-cased, begins with x-amz-meta-, and
\* the key stated for such a header: that name without the leading prefix.
MetaHeaderNames(h) == {n \in DOMAIN h : BeginsWith(ToLowerCase(n), MetaPrefix)}
StatedMetaKey(n) == SubSeq(ToLowerCase(n), Len(MetaPrefix) + 1, Len(n))

\* C27: the metadata getObject returns has exactly one entry per response
\* header whose name begins, case-insensitively, with x-amz-meta-: its key is
\* the lower-cased name without that prefix and its value the header's value;
\* no other header gives an entry; and metadata is undefined when the
\* response has no such header.
C27_MetadataIsTheMetaHeaders ==
  Succeeded("getObject") =>
     LET names == MetaHeaderNames(response[1].headers)
         got == outcome.value.metadata
     IN IF names = {} THEN got = Undefined
        ELSE /\ IsDefined(got)
             /\ DOMAIN got[1] = {StatedMetaKey(n) : n \in names}
             /\ Cardinality(DOMAIN got[1]) = Cardinality(names)
             /\ \A n \in names : got[1][StatedMetaKey(n)] = response[1].headers[n]

C27_Witness ==
  /\ Succeeded("getObject")
  /\ response[1].headers = ProtoAndOtherHeaders
  /\ outcome.value.metadata = Some((<<>>) :> <<"2">>)

\* The number of bytes of a file argument: those of a Blob or ArrayBuffer, and
\* for a string those of its UTF-8 encoding, 2 for the character e-acute.
RECURSIVE StatedUtf8Length(_)
StatedUtf8Length(str) ==
  IF str = <<>> THEN 0
  ELSE (IF Head(str) = "e-acute" THEN 2 ELSE 1) + StatedUtf8Length(Tail(str))
StatedByteLength(file) ==
  IF file.kind = "string" THEN StatedUtf8Length(file.data) ELSE Len(file.data)

\* C28: uploadFile gives the HTTP PUT the body it gave the signer, and when it
\* returns, the result has the key and the content type supplied and a
\* fileSize equal to the number of bytes of that body, which is the byte
\* length of the file supplied, be it a Blob, an ArrayBuffer or a string.
C28_OneBodyAndItsSize ==
  InCall("uploadFile") =>
     /\ Len(signerLog) = 1
     /\ IsDefined(signerLog[1].body)
     /\ Len(signerLog[1].body[1].bytes) = StatedByteLength(call.file)
     /\ \A i \in 1..Len(httpLog) :
           /\ httpLog[i].method = "PUT"
           /\ httpLog[i].body = signerLog[1].body
     /\ outcome.kind = "return" =>
           /\ Len(httpLog) = 1
           /\ outcome.value.key = call.key
           /\ outcome.value.contentType = call.contentType
           /\ outcome.value.fileSize = Len(httpLog[1].body[1].bytes)
           /\ outcome.value.fileSize = StatedByteLength(call.file)

C28_Witness ==
  /\ Succeeded("uploadFile")
  /\ call.file.kind = "string"
  /\ call.file.data = <<"h", "e-acute">>
  /\ outcome.value.fileSize = 3
  /\ httpLog[1].body[1].bytes = <<"h", "c3", "a9">>

\* The changes of status the upload command is stated to make.
StatedStatusChanges ==
  {<<"initializing", "uploading">>, <<"uploading", "complete">>,
   <<"initializing", "error">>, <<"uploading", "error">>}
\* Exit has been requested: the timer that calls exit() is set, or has fired.
ExitRequested == cli.exitTimers > 0 \/ cli.exitCalls > 0

\* C23: the status of the upload command is initializing at first; a step
\* that changes it takes it from initializing to uploading, from uploading to
\* complete, or from initializing or uploading to error, so complete and
\* error are never left; and exit is requested only with the status complete
\* or error.
C23_StatusTransitions ==
  /\ cli.status = "initializing"
  /\ [][cli.status' # cli.status => <<cli.status, cli.status'>> \in StatedStatusChanges]_vars
  /\ [](ExitRequested => cli.status \in {"complete", "error"})

C23_Witness ==
  /\ cli.status = "complete"
  /\ cli.exitCalls = 1
  /\ cli.downloadUrl # <<>>
  /\ Len(cli.logs) = 3

\* C24: in every run in which the timers fire and each file access and
\* storage call returns or fails, exit() is eventually called, and in no run
\* is it called, or scheduled and called, more than once.
C24_ExitsExactlyOnce ==
  /\ <>(cli.exitCalls = 1)
  /\ [](cli.exitCalls + cli.exitTimers <= 1)

C24_Witness ==
  /\ cli.status = "error"
  /\ cli.exitCalls = 1
  /\ cli.exitTimers = 0
  /\ cli.interval = "active"
  /\ cli.error = Some(<<"Upload", " failed: ", "500", " ", "Internal Server Error">>)

\* A displayed number has the value n.
IsNumber(v, n) == v.den # 0 /\ v.num = n * v.den
\* The progress the command displays.
Progress == <<cli.percentage, cli.transferRate, cli.estimatedTime>>
\* uploadFile has settled with a result and its continuation is due, and the
\* continuation has run.
UploadSettledOk == cli.step = "uploading" /\ pc = "done" /\ outcome.kind = "return"
UploadHasReturned ==
  cli.step \in {"presigning", "exiting", "exited"} /\ IsDefined(lastPut)

TransferCompleteEntry ==
  [message |-> <<"Transfer complete. Resource available at edge node.">>, type |-> "success"]
HasLogEntry(e) == \E i \in 1..Len(cli.logs) : cli.logs[i] = e
HasErrorEntry == \E i \in 1..Len(cli.logs) : cli.logs[i].type = "error"

\* C30: the command shows failure (status error, the error view, an error
\* entry in the log) only when uploadFile did not succeed: with the object
\* stored the status is never error, and the log never holds both the
\* Transfer complete entry and an error entry.
C30_FailureOnlyWithoutUpload ==
  /\ (cli.status = "error" \/ IsDefined(cli.error)) => ~IsDefined(lastPut)
  /\ ~(HasLogEntry(TransferCompleteEntry) /\ HasErrorEntry)

C30_Witness ==
  /\ cli.status = "error"
  /\ cli.step = "exited"
  /\ IsDefined(lastPut)
  /\ cli.error = Some(SignerError.message)
  /\ HasLogEntry(TransferCompleteEntry)
  /\ HasLogEntry([message |-> <<"Upload failed: ">> \o SignerError.message, type |-> "error"])
  /\ IsNumber(cli.percentage, 100)

====
